---- MODULE Spec2Model ----
(***************************************************************************)
(* Model of the agents orchestrator (MomsFriendlyDevCo/agents): session    *)
(* creation, the _running coalescer map, run / get / invalidate /          *)
(* getSession, the queued execution chain of run and the inline runner.    *)
(* Every asynchronous boundary of the JavaScript code (a cache operation,  *)
(* a timer, a promise continuation) is a step boundary of the model, so    *)
(* that requests interleave exactly where the event loop lets them.        *)
(***************************************************************************)
EXTENDS Integers, Sequences, FiniteSets, TLC

(* ------------------------------ bounds -------------------------------- *)

\* Number of requests (run, get, invalidate, getSession, cron tick) issued.
MaxCalls == 2

\* Number of log lines, before the padding, whose content is varied.
MaxLogLines == 2

\* Number of times a worker reports progress during one run.
MaxProgress == 2

\* Number of distinct key names (not beginning with '$') that the settings
\* of a key derivation draw their top-level keys from.
MaxTopKeys == 2

(* ------------------------------ values -------------------------------- *)

\* JavaScript values a worker can hand to finish(null, value), by type:
\* an array (as every object that has keys other than 'error' alone),
\* an object whose only key is 'error', a string and the number 0.
VArr == "array"
VErrObj == "errorObject"
VStr == "string"
VZero == "zero"
Undefined == "undefined"
Values == {VArr, VErrObj, VStr, VZero}

\* The function object session.defer.reject, as a value.
RejectFn == "rejectFn"
\* The session object itself, as the value a call returns.
SessionRef == "session"
\* The cause a failing worker reports (throw new Error('ERROR') / finish('ERROR')).
ErrCause == "ERROR"

\* JavaScript truthiness of a value (0 and undefined are falsy).
Truthy(v) == v \notin {VZero, Undefined}
\* _.isObject(v)
IsObject(v) == v \in {VArr, VErrObj}
\* _.isObject(v) && _.isEqual(_.keys(v), ['error'])
IsErrorOnly(v) == v = VErrObj

(* ------------------------------ registry ------------------------------ *)

\* The agent files of examples/, which settings.paths names by default, as
\* agents.refresh() loads them: each with the keys its file sets and
\* settings.agentDefaults for the others (expires: false is "", no timing
\* is "").
Examples ==
  [ errors  |-> [methods |-> <<"aws", "pm2", "inline">>, hasReturn |-> TRUE,
                 expires |-> "1h", immediate |-> FALSE, timing |-> ""],
    logging |-> [methods |-> <<"aws", "pm2", "inline">>, hasReturn |-> TRUE,
                 expires |-> "1h", immediate |-> FALSE, timing |-> ""],
    primes  |-> [methods |-> <<"aws", "pm2", "inline">>, hasReturn |-> TRUE,
                 expires |-> "1h", immediate |-> FALSE, timing |-> ""],
    session |-> [methods |-> <<"aws", "pm2", "inline">>, hasReturn |-> TRUE,
                 expires |-> "1h", immediate |-> FALSE, timing |-> ""],
    timed1  |-> [methods |-> <<"aws", "pm2", "inline">>, hasReturn |-> TRUE,
                 expires |-> "", immediate |-> FALSE, timing |-> "*/10 * * * * *"] ]

\* Agent files a caller adds to settings.paths for what no example does:
\* pmonly lists only the pm2 runner, which the configured selection never
\* picks; notify has no result to store; eager is marked immediate. The
\* keys they do not set are those of settings.agentDefaults.
Supplied ==
  [ pmonly |-> [methods |-> <<"pm2">>, hasReturn |-> TRUE,
                expires |-> "", immediate |-> FALSE, timing |-> ""],
    notify |-> [methods |-> <<"pm2", "inline">>, hasReturn |-> FALSE,
                expires |-> "", immediate |-> FALSE, timing |-> ""],
    eager  |-> [methods |-> <<"pm2", "inline">>, hasReturn |-> TRUE,
                expires |-> "", immediate |-> TRUE, timing |-> ""] ]

\* agents._agents: the agent definitions loaded, keyed by id.
Registry ==
  [a \in DOMAIN Examples \cup DOMAIN Supplied |->
     IF a \in DOMAIN Examples THEN Examples[a] ELSE Supplied[a]]
AgentIds == DOMAIN Registry
\* The agents initCron installs a periodic task for: if (!agent.timing ...) return
TimedAgents == {a \in AgentIds : Registry[a].timing # ""}
\* The agents the callers of the main specification ask for.
Served == {"primes", "pmonly"}
\* The agents callers ask for while the run init() made is in flight.
ServedImmediate == {"eager", "pmonly"}
\* The agents of the three kinds the inline runner tells apart.
InlineAgents == {"primes", "timed1", "notify"}

\* settings.runner.calculate: the configured runner selection.
RunnerCalculate == "inline"
\* settings.cache.calculate: session => session.settings.cache.modules[0]
CacheCalculate == "filesystem"

\* A compatibility test that lets every runner through.
IncompatibleNever(agent, runner) == FALSE

\* session.worker.methods.indexOf(session.runner) === -1
Incompatible(agent, runner) ==
  \A i \in 1..Len(Registry[agent].methods) : Registry[agent].methods[i] # runner

(* --------------------------- key derivation --------------------------- *)

\* Settings values: an atom, an object given by the sequence of its [k, v]
\* members in insertion order, or an array given by its elements in order
\* (held as members without a key). A key is the sequence of its characters.
Atom(x) == [t |-> "atom", a |-> x, o |-> <<>>]
Obj(members) == [t |-> "obj", a |-> "", o |-> members]
Arr(elems) ==
  [t |-> "arr", a |-> "", o |-> [i \in 1..Len(elems) |-> [k |-> <<>>, v |-> elems[i]]]]
NoSettings == Obj(<<>>)

\* UTF-16 code units of the characters keys are made of.
CharCode(c) == CASE c = "$" -> 36 [] c = "a" -> 97 [] c = "b" -> 98

\* x < y for two keys, as JavaScript compares strings.
KeyBefore(x, y) ==
  \E i \in 1..(Len(x) + 1) :
    /\ \A j \in 1..(i - 1) : j <= Len(y) /\ x[j] = y[j]
    /\ IF i > Len(x)
         THEN i <= Len(y)
         ELSE i <= Len(y) /\ CharCode(x[i]) < CharCode(y[i])

\* _.sortBy(pairs, 0): the members in ascending order of their (distinct) keys.
sortBy(members) ==
  [i \in 1..Len(members) |->
     members[CHOOSE j \in 1..Len(members) :
       Cardinality({m \in 1..Len(members) :
                      KeyBefore(members[m].k, members[j].k)}) = i - 1]]

\* _.keyArrangeDeep (lodash-keyarrange), "deeply sort keys ... so
\* semantically equal settings always serialize identically": the keys of
\* the object and of every object nested in it, in objects and in arrays,
\* sorted; the elements of an array stay in their order.
RECURSIVE keyArrangeDeep(_)
keyArrangeDeep(v) ==
  CASE v.t = "obj" ->
         Obj(sortBy([i \in 1..Len(v.o) |->
                       [k |-> v.o[i].k, v |-> keyArrangeDeep(v.o[i].v)]]))
    [] v.t = "arr" ->
         Arr([i \in 1..Len(v.o) |-> keyArrangeDeep(v.o[i].v)])
    [] OTHER -> v

\* (v, k) => !k.startsWith('$')
NotDollar(member) == member.k # <<>> => member.k[1] # "$"

\* A projection that keeps every member.
PickAll(members) == members

\* _.pickBy(settings, (v, k) => !k.startsWith('$')): top-level members only.
pickBy(members) == SelectSeq(members, NotDollar)

\* The key as a string.
RECURSIVE KeyString(_)
KeyString(k) == IF k = <<>> THEN "" ELSE Head(k) \o KeyString(Tail(k))

\* JSON.stringify: members in the object's own order, elements in the
\* array's order.
RECURSIVE Stringify(_)
RECURSIVE Members(_)
RECURSIVE Elements(_)
Members(ms) ==
  IF ms = <<>> THEN ""
  ELSE "\"" \o KeyString(Head(ms).k) \o "\":" \o Stringify(Head(ms).v)
       \o (IF Tail(ms) = <<>> THEN "" ELSE "," \o Members(Tail(ms)))
Elements(es) ==
  IF es = <<>> THEN ""
  ELSE Stringify(Head(es).v) \o (IF Tail(es) = <<>> THEN "" ELSE "," \o Elements(Tail(es)))
Stringify(v) ==
  CASE v.t = "atom" -> v.a
    [] v.t = "arr" -> "[" \o Elements(v.o) \o "]"
    [] OTHER -> "{" \o Members(v.o) \o "}"

\* crypto.createHash('sha256').update(text).digest('hex'), taken as
\* collision free: the digest stands for the text digested.
Sha256(text) == "sha256(" \o text \o ")"

\* settings.keyRewrite, by default key => key
keyRewrite(key) == key

\* A derivation that hashes the projected settings as they were built.
getKeyUnarranged(id, settings) ==
  LET hashable == Obj(pickBy(settings.o)) IN
    keyRewrite(IF hashable.o = <<>>
                 THEN id
                 ELSE id \o "-" \o Sha256(Stringify(hashable)))

\* agents.getKey(id, settings)
getKey(id, settings) ==
  LET hashable == keyArrangeDeep(Obj(pickBy(settings.o))) IN
    keyRewrite(IF hashable.o = <<>>
                 THEN id
                 ELSE id \o "-" \o Sha256(Stringify(hashable)))
\* `${session.cacheKey}-progress`
ProgressKey(k) == k \o "-progress"
Keys == {getKey(a, NoSettings) : a \in AgentIds}
AllKeys == Keys \cup {ProgressKey(k) : k \in Keys}

(* ------------------------------- state -------------------------------- *)

VARIABLES
  cache,     \* the cache backend: key -> entry
  running,   \* agents._running: cacheKey -> id of the registered session, 0 if none
  sessions,  \* the session objects, by the id of the call that created them
  chain,     \* per session: the execution queued by run (setTimeout ... finally)
  calls,     \* the requests issued so far and the position of each
  kq,        \* a key derivation: the settings given, a variant of them, the keys
  life,      \* the orchestrator's lifecycle: destroy(), scheduler, backends, events
  pm         \* the pm2 supervisor and the executions of the pm2 runner

vars == <<cache, running, sessions, chain, calls, kq, life, pm>>

\* What the requests on agents leave alone.
other == <<kq, life, pm>>
\* What a key derivation and the lifecycle leave alone.
core == <<cache, running, sessions, chain, calls>>

Absent == [val |-> Undefined, exp |-> FALSE, by |-> 0]
\* agents.createContext: the progress markers of a new context (current out
\* of max; 0 for undefined) and its property `cache`, which createContext
\* does not set and nothing else assigns.
createContext == [progressCurrent |-> 0, progressMax |-> 0, cache |-> ""]

NoSession == [agent |-> "", key |-> "", runner |-> "", cache |-> "", status |-> "",
              result |-> Undefined, error |-> Undefined, progress |-> Undefined,
              context |-> createContext,
              defer |-> [st |-> "none", val |-> Undefined]]
NoChain == [pc |-> "none", ok |-> FALSE, out |-> Undefined, wrote |-> FALSE]

\* .filter(agent => agent.immediate)
ImmediateAgents == {a \in AgentIds : Registry[a].immediate}

\* Ids of requests and of the sessions they create: the callers' requests
\* and the runs init() makes itself.
CallIds == 1..(MaxCalls + Cardinality(ImmediateAgents))

(* agents.createDefer *)
createDefer == [st |-> "pending", val |-> Undefined]

(* agents.createSession: the session object for (id, {}) *)
createSession(id) ==
  [agent |-> id, key |-> getKey(id, NoSettings), runner |-> RunnerCalculate,
   cache |-> CacheCalculate, status |-> "",
   result |-> Undefined, error |-> Undefined, progress |-> Undefined,
   context |-> createContext,
   defer |-> createDefer]

\* What the cache may hold for a key when the orchestrator starts: nothing,
\* or a result an earlier process stored.
Persisted == {Absent, [val |-> VArr, exp |-> TRUE, by |-> 0]}

NoRet == [st |-> "pending", val |-> Undefined]

\* What createSession selects the runner and the cache from: settings.runner
\* and settings.cache as the caller gave them ("" when not given) and the
\* answers of the two calculate hooks ("" for a falsy answer). Here nothing
\* is given and the hooks answer as they are configured.
DefaultSel == [runner |-> "", cache |-> "", cacheKey |-> "",
               runnerCalc |-> RunnerCalculate, cacheCalc |-> CacheCalculate]

\* No key derivation asked for.
NoQuery == [id |-> "", given |-> NoSettings, variant |-> NoSettings,
            givenKey |-> "", variantKey |-> ""]

\* settings.cache.modules: the cache backends initCaches constructs.
CacheModules == {"filesystem", "memory"}
\* agents.runners
RunnerModules == {"inline", "pm2"}
\* _.isFunction(r.destroy): neither runner module exports a destroy.
HasDestroy(r) == FALSE

\* The orchestrator once init() has resolved with autoInstall: true and
\* allowImmediate: false: backends constructed and initialised, the periodic
\* tasks installed, scheduler started, destroy() not called. events holds
\* what has been emitted since, ticks the number of 'tick' events.
LifeReady ==
  [pc |-> "ready", events |-> <<>>, scheduler |-> "started",
   caches |-> [m \in CacheModules |-> "ready"],
   runners |-> [r \in RunnerModules |-> "loaded"],
   autoInstall |-> TRUE, allowImmediate |-> FALSE,
   tasks |-> TimedAgents, ticks |-> 0, init |-> "resolved"]

\* pm2_env.exit_code is not set.
NoExit == -1
\* An answer of pm2.describe that lists a process; errLog is
\* pm2_env.pm_err_log_path, "" when the answer has none.
ProcLogged(status, pid, exit, errLog) ==
  [listed |-> TRUE, status |-> status, pid |-> pid, exit |-> exit, errLog |-> errLog]
Proc(status, pid, exit) == ProcLogged(status, pid, exit, "")
\* The answer of pm2.describe when no process is listed under the name: [].
Gone == [listed |-> FALSE, status |-> "", pid |-> 0, exit |-> NoExit, errLog |-> ""]
\* The error log pm2 keeps for a process.
ErrLogPath == "/l/err.log"

\* An execution of the pm2 runner that has not begun: its position in
\* exec, this.pid, the last answer the poll loop had (polled: it had one;
\* classified: it left the loop on one), whether the stale process was
\* deleted, and the two tasks of the parallel step.
NoExec == [pc |-> "idle", pid |-> 0, last |-> Gone, polled |-> FALSE,
           classified |-> FALSE, deleted |-> FALSE, cleaned |-> FALSE,
           read |-> FALSE, value |-> Undefined]

\* No process under any name, an empty log tail, no pm2 execution begun;
\* settings.runner.pm2.logFileScan as it defaults. conn: the client that
\* require('pm2') gives every execution of this process is connected. file:
\* the file at logFilePath can be opened and holds logFileTailSize bytes or
\* more ("readable"), holds fewer ("short"), or cannot be opened ("missing").
PmIdle ==
  [procs |-> [k \in Keys |-> <<>>], log |-> <<>>, scan |-> TRUE,
   exec |-> [i \in CallIds |-> NoExec], conn |-> FALSE, file |-> "readable"]

\* The orchestrator after init() with settings.allowImmediate = false:
\* nothing is registered and nothing has been requested.
Init ==
  /\ cache \in {[[k \in AllKeys |-> Absent] EXCEPT !["primes"] = e] : e \in Persisted}
  /\ running = [k \in Keys |-> 0]
  /\ sessions = [i \in CallIds |-> NoSession]
  /\ chain = [i \in CallIds |-> NoChain]
  /\ calls = <<>>
  /\ kq = NoQuery
  /\ pm = PmIdle
  /\ life = LifeReady

\* agents.init with settings.allowImmediate = true: agents.run(agent.id) has
\* been called for the immediate agent, fire-and-forget, and its session exists.
InitImmediate ==
  /\ cache \in {[[k \in AllKeys |-> Absent] EXCEPT !["eager"] = e] : e \in Persisted}
  /\ running = [k \in Keys |-> 0]
  /\ sessions = [[i \in CallIds |-> NoSession] EXCEPT ![1] = createSession("eager")]
  /\ chain = [i \in CallIds |-> NoChain]
  /\ calls = << [op |-> "immediate", agent |-> "eager", want |-> "promise",
                 lazy |-> FALSE, pc |-> "attach", sess |-> 1, val |-> Undefined,
                 prog |-> Undefined, awaiting |-> 0, ret |-> NoRet, reg |-> 0,
                 method |-> "get", inv |-> FALSE, dead |-> FALSE, retry |-> FALSE,
                 after |-> {}, sel |-> DefaultSel] >>
  /\ kq = NoQuery
  /\ pm = PmIdle
  /\ life = [LifeReady EXCEPT !.allowImmediate = TRUE]

(* --------------------------- issuing requests -------------------------- *)

\* A request whose first .then has run: its session exists (created by
\* createSession, or the session object the caller passed). For a get, inv
\* records that an invalidate of the same agent had resolved when the get
\* was issued; for an invalidate, reg records the session that was
\* registered under the key when its unset ran; dead records that destroy()
\* had resolved when the request was issued; for a firing of a periodic
\* task, retry records that the run of an earlier firing of the same agent
\* had been rejected by then; for a run, after records the sessions whose
\* defer had settled when it was issued; sel is what the session's runner
\* and cache are selected from.
NewCall(op, agent, want, lazy, sess, pc) ==
  [op |-> op, agent |-> agent, want |-> want, lazy |-> lazy, pc |-> pc,
   sess |-> sess, val |-> Undefined, prog |-> Undefined, awaiting |-> 0,
   ret |-> NoRet, reg |-> 0, method |-> "get",
   inv |-> /\ op = "get"
           /\ \E i \in 1..Len(calls) :
                /\ calls[i].op = "invalidate" /\ calls[i].pc = "done"
                /\ calls[i].agent = agent,
   dead |-> life.pc = "destroyed",
   retry |-> /\ op = "tick"
             /\ \E i \in 1..Len(calls) :
                  /\ calls[i].op = "tick" /\ calls[i].agent = agent
                  /\ calls[i].pc = "await"
                  /\ sessions[calls[i].awaiting].defer.st = "rejected",
   after |-> IF op \in {"run", "tick"}
               THEN {s \in CallIds : sessions[s].defer.st \in {"resolved", "rejected"}}
               ELSE {},
   sel |-> DefaultSel]

\* Requests may still be issued within the bound.
Budget == Cardinality({j \in 1..Len(calls) : calls[j].op # "immediate"}) < MaxCalls

\* The first .then of a request: the session it works on is created.
Enter(c) ==
  /\ Budget
  /\ calls' = Append(calls, c)
  /\ sessions' = IF c.sess = Len(calls) + 1
                   THEN [sessions EXCEPT ![c.sess] = createSession(c.agent)]
                   ELSE sessions
  /\ UNCHANGED <<cache, running, chain>>

\* The request is issued and the session it works on is created.
Issue(c) ==
  /\ Enter(c)
  /\ UNCHANGED other

\* agents.run(id, {}, {want}); a firing of a periodic task is such a call.
CallRun(a, w) == Issue(NewCall("run", a, w, FALSE, Len(calls) + 1, "attach"))

\* agents.get(id, {}, {lazy})
CallGet(a, lazy) == Issue(NewCall("get", a, "promise", lazy, Len(calls) + 1, "probe"))

\* agents.getSize(id): get with {lazy: true, cacheMethod: 'size'}
CallGetSize(a) ==
  Issue([NewCall("get", a, "promise", TRUE, Len(calls) + 1, "probe")
           EXCEPT !.method = "size"])

\* agents.invalidate(id)
CallInvalidate(a) ==
  Issue(NewCall("invalidate", a, "promise", FALSE, Len(calls) + 1, "unset"))

\* agents.getSession(session), on a session object an earlier run returned
CallGetSession(j) ==
  /\ j \in 1..Len(calls)
  /\ calls[j].op = "run"
  /\ calls[j].ret.val = SessionRef
  /\ Issue(NewCall("getSession", calls[j].agent, "promise", FALSE, calls[j].sess, "read"))

(* ------------------------------ run / get ------------------------------ *)

Pending(i, pc) == i \in 1..Len(calls) /\ calls[i].pc = pc

\* The test get applies to the probed value: val ? val : ...
CacheHit(val) == Truthy(val)

\* The approximate size in bytes the backend reports for a stored value.
VSize == "size"
\* caches[session.cache][settings.cacheMethod || 'get'](session.cacheKey)
CacheRead(method, entry) ==
  IF method = "size"
    THEN (IF entry.val = Undefined THEN Undefined ELSE VSize)
    ELSE entry.val

\* A get that goes on to run on every miss, lazy or not.
GetProbeEager(i) ==
  /\ Pending(i, "probe")
  /\ LET val == CacheRead(calls[i].method, cache[sessions[calls[i].sess].key]) IN
       calls' = [calls EXCEPT ![i] =
         IF CacheHit(val)
           THEN [@ EXCEPT !.val = val, !.pc = "done", !.ret = [st |-> "resolved", val |-> val]]
           ELSE [@ EXCEPT !.val = val, !.pc = "attach"]]
  /\ UNCHANGED <<cache, running, sessions, chain>>
  /\ UNCHANGED other

\* agents.get: the cache probe and the choice that follows it.
GetProbe(i) ==
  /\ Pending(i, "probe")
  /\ LET val == CacheRead(calls[i].method, cache[sessions[calls[i].sess].key]) IN
       calls' = [calls EXCEPT ![i] =
         IF CacheHit(val)
           THEN [@ EXCEPT !.val = val, !.pc = "done", !.ret = [st |-> "resolved", val |-> val]]
         ELSE IF ~calls[i].lazy
           THEN [@ EXCEPT !.val = val, !.pc = "attach"]
         ELSE [@ EXCEPT !.val = val, !.pc = "done", !.ret = [st |-> "resolved", val |-> Undefined]]]
  /\ UNCHANGED <<cache, running, sessions, chain>>
  /\ UNCHANGED other

\* A run that never finds a registered session (the coalescing test lost).
IsRunningNever(k) == FALSE

\* if (agents._running[session.cacheKey])
IsRunning(k) == running[k] # 0

\* throw new Error(`Unknown want type: "${settings.want}"`)
UnknownWant == "Unknown want type"

\* No continuation is queued ahead of the second .then of any run.
AheadNone(i) == {}

\* The .finally continuations queued ahead of the second .then of run i:
\* defer.resolve comes two continuations before the delete of its chain, and
\* a run issued once the defer has settled comes to its second .then two
\* continuations later at the earliest (createSession does no I/O), so the
\* delete of every session that had settled by then runs first.
Ahead(i) == {s \in calls[i].after : chain[s].pc = "settled"}

\* agents.run, second .then: coalesce, refuse an unsupported runner, or
\* register the session and queue its execution; then answer as settings.want
\* asks, throwing if it is neither 'promise' nor 'session'.
RunAttach(i) ==
  /\ Pending(i, "attach")
  /\ Ahead(i) = {}
  /\ LET s == calls[i].sess
         k == sessions[s].key
     IN
       IF IsRunning(k) THEN
         /\ calls' = [calls EXCEPT ![i].pc = "await", ![i].awaiting = running[k]]
         /\ UNCHANGED <<running, sessions, chain>>
       ELSE IF Incompatible(sessions[s].agent, sessions[s].runner) THEN
         /\ IF calls[i].want = "promise"
              THEN /\ calls' = [calls EXCEPT ![i].pc = "done",
                                  ![i].ret = [st |-> "resolved", val |-> RejectFn]]
                   /\ UNCHANGED sessions
              ELSE IF calls[i].want = "session"
              THEN /\ calls' = [calls EXCEPT ![i].pc = "done",
                                  ![i].ret = [st |-> "resolved", val |-> SessionRef]]
                   /\ sessions' = [sessions EXCEPT ![s].status = "error",
                                                   ![s].result = Undefined]
              ELSE /\ calls' = [calls EXCEPT ![i].pc = "done",
                                  ![i].ret = [st |-> "rejected", val |-> UnknownWant]]
                   /\ UNCHANGED sessions
         /\ UNCHANGED <<running, chain>>
       ELSE
         /\ running' = [running EXCEPT ![k] = s]
         /\ chain' = [chain EXCEPT ![s] = [NoChain EXCEPT !.pc = "queued"]]
         /\ IF calls[i].want = "promise"
              THEN /\ calls' = [calls EXCEPT ![i].pc = "await", ![i].awaiting = s]
                   /\ UNCHANGED sessions
              ELSE IF calls[i].want = "session"
              THEN /\ calls' = [calls EXCEPT ![i].pc = "done",
                                  ![i].ret = [st |-> "resolved", val |-> SessionRef]]
                   /\ sessions' = [sessions EXCEPT ![s].status = "pending",
                                                   ![s].result = Undefined]
              ELSE /\ calls' = [calls EXCEPT ![i].pc = "done",
                                  ![i].ret = [st |-> "rejected", val |-> UnknownWant]]
                   /\ UNCHANGED sessions
  /\ UNCHANGED cache
  /\ UNCHANGED other

\* What the promise a request returned has settled to: a promise that was
\* handed a defer's promise (return session.defer.promise) follows that defer.
Ret(i) ==
  IF calls[i].pc = "await" THEN sessions[calls[i].awaiting].defer ELSE calls[i].ret

\* The caller of request i has its answer.
Settled(i) == i \in 1..Len(calls) /\ Ret(i).st # "pending"

(* ------------------- the execution queued by run ----------------------- *)

ChainAt(s, pc) == s \in CallIds /\ chain[s].pc = pc

\* The worker has been invoked for the execution of session s.
Invoked(s) ==
  chain[s].pc \in {"working", "writing", "stuck", "execDone", "settled", "removed"}

\* The execution of session s is queued or under way.
InFlight(s) ==
  chain[s].pc \in {"queued", "emitted", "cleared", "working", "writing", "stuck",
                   "execDone", "settled"}

\* setTimeout fires; first .then of the queued chain: agents.emit('run', session)
RunEmit(s) ==
  /\ ChainAt(s, "queued")
  /\ chain' = [chain EXCEPT ![s].pc = "emitted"]
  /\ UNCHANGED <<cache, running, sessions, calls>>
  /\ UNCHANGED other

\* An unset that leaves the progress record in place.
KeepProgress(c, k) == c

\* caches[session.cache].unset(`${session.cacheKey}-progress`)
ClearProgress(c, k) == [c EXCEPT ![ProgressKey(k)] = Absent]

\* second .then of the queued chain: the progress record is cleared
RunClear(s) ==
  /\ ChainAt(s, "emitted")
  /\ cache' = ClearProgress(cache, sessions[s].key)
  /\ chain' = [chain EXCEPT ![s].pc = "cleared"]
  /\ UNCHANGED <<running, sessions, calls>>
  /\ UNCHANGED other

\* third .then of the queued chain: agents.runners[session.runner].exec(session);
\* the inline runner invokes the worker.
RunExec(s) ==
  /\ ChainAt(s, "cleared")
  /\ chain' = [chain EXCEPT ![s].pc = "working"]
  /\ UNCHANGED <<cache, running, sessions, calls>>
  /\ UNCHANGED other

\* The queued chain up to the runner: setTimeout(()=> Promise.resolve()
\* .then(emit).then(unset).then(exec) ...), each .then a step of its own.
RunStart(s) ==
  \/ RunEmit(s)
  \/ RunClear(s)
  \/ RunExec(s)

\* A failing exec that drops what the cache holds under the key.
WorkerFailClears(s) ==
  /\ ChainAt(s, "working")
  /\ chain' = [chain EXCEPT ![s].pc = "execDone", ![s].out = ErrCause, ![s].ok = FALSE]
  /\ cache' = [cache EXCEPT ![sessions[s].key] = Absent]
  /\ UNCHANGED <<running, sessions, calls>>
  /\ UNCHANGED other

\* The worker throws, or reports an error through its continuation:
\* inline exec rejects with the cause and writes nothing.
WorkerFail(s) ==
  /\ ChainAt(s, "working")
  /\ chain' = [chain EXCEPT ![s].pc = "execDone", ![s].out = ErrCause, ![s].ok = FALSE]
  /\ UNCHANGED <<cache, running, sessions, calls>>
  /\ UNCHANGED other

\* An inline exec that resolves with the value without stashing it.
InlineNoStash(s, v) == [chain[s] EXCEPT !.pc = "execDone", !.out = v, !.ok = TRUE]

\* What inline exec does with a value the worker handed to its continuation:
\* with hasReturn the value is to be stashed first, else exec resolves at once.
InlineAfterWorker(s, v) ==
  IF Registry[sessions[s].agent].hasReturn
    THEN [chain[s] EXCEPT !.pc = "writing", !.out = v]
    ELSE [chain[s] EXCEPT !.pc = "execDone", !.out = Undefined, !.ok = TRUE]

\* The worker calls finish(null, v).
WorkerFinish(s, v) ==
  /\ ChainAt(s, "working")
  /\ chain' = [chain EXCEPT ![s] = InlineAfterWorker(s, v)]
  /\ UNCHANGED <<cache, running, sessions, calls>>
  /\ UNCHANGED other

\* A stash that never passes an expiry.
StashNoExpiry(s) == [val |-> chain[s].out, exp |-> FALSE, by |-> s]

\* The entry session.cacher.set(cacheKey, value[, expiry]) stores.
StashEntry(s) ==
  [val |-> chain[s].out, exp |-> Registry[sessions[s].agent].expires # "", by |-> s]

\* The stash write completes; its .then resolves exec with the value.
CacheSet(s) ==
  /\ ChainAt(s, "writing")
  /\ cache' = [cache EXCEPT ![sessions[s].key] = StashEntry(s)]
  /\ chain' = [chain EXCEPT ![s].pc = "execDone", ![s].ok = TRUE, ![s].wrote = TRUE]
  /\ UNCHANGED <<running, sessions, calls>>
  /\ UNCHANGED other

\* A defer that resolves with no value, whatever the runner returned.
SettleDropsValue(defer, ok, out) ==
  IF defer.st = "pending"
    THEN [st |-> IF ok THEN "resolved" ELSE "rejected", val |-> Undefined]
    ELSE defer

\* A defer that nothing settles.
SettleNever(defer, ok, out) == defer

\* defer.resolve(value) / defer.reject(cause): a settled promise stays as it is.
Settle(defer, ok, out) ==
  IF defer.st = "pending"
    THEN [st |-> IF ok THEN "resolved" ELSE "rejected", val |-> out]
    ELSE defer

\* .then(value => session.defer.resolve(value)).catch(session.defer.reject)
DeferSettle(s) ==
  /\ ChainAt(s, "execDone")
  /\ sessions' = [sessions EXCEPT ![s].defer = Settle(@, chain[s].ok, chain[s].out)]
  /\ chain' = [chain EXCEPT ![s].pc = "settled"]
  /\ UNCHANGED <<cache, running, calls>>
  /\ UNCHANGED other

\* A chain that deletes the entry only when the execution resolved.
RemoveResolved(s) ==
  /\ ChainAt(s, "settled")
  /\ running' = IF chain[s].ok THEN [running EXCEPT ![sessions[s].key] = 0] ELSE running
  /\ chain' = [chain EXCEPT ![s].pc = "removed"]
  /\ UNCHANGED <<cache, sessions, calls>>
  /\ UNCHANGED other

\* .finally(()=> delete agents._running[session.cacheKey])
Remove(s) ==
  /\ ChainAt(s, "settled")
  /\ running' = [running EXCEPT ![sessions[s].key] = 0]
  /\ chain' = [chain EXCEPT ![s].pc = "removed"]
  /\ UNCHANGED <<cache, sessions, calls>>
  /\ UNCHANGED other

(* ------------------------ invalidate / getSession ---------------------- *)

\* An invalidate that also drops the session registered under the key.
InvalidateCancels(i) ==
  /\ Pending(i, "unset")
  /\ cache' = [cache EXCEPT ![sessions[calls[i].sess].key] = Absent]
  /\ running' = [running EXCEPT ![sessions[calls[i].sess].key] = 0]
  /\ calls' = [calls EXCEPT ![i].pc = "done",
                            ![i].reg = running[sessions[calls[i].sess].key],
                            ![i].ret = [st |-> "resolved", val |-> Undefined]]
  /\ UNCHANGED <<sessions, chain>>
  /\ UNCHANGED other

\* agents.invalidate: caches[session.cache].unset(session.cacheKey)
InvalidateUnset(i) ==
  /\ Pending(i, "unset")
  /\ cache' = [cache EXCEPT ![sessions[calls[i].sess].key] = Absent]
  /\ calls' = [calls EXCEPT ![i].pc = "done",
                            ![i].reg = running[sessions[calls[i].sess].key],
                            ![i].ret = [st |-> "resolved", val |-> Undefined]]
  /\ UNCHANGED <<running, sessions, chain>>
  /\ UNCHANGED other

\* agents.getSession: agents.caches[cache].get(id) answers; the .then of
\* the outer Promise.all runs once the read of the progress record has
\* answered too.
GetSessionReadValue(i) ==
  /\ i \in 1..Len(calls)
  /\ calls[i].pc \in {"read", "readProgress"}
  /\ calls' = [calls EXCEPT
       ![i].pc = IF calls[i].pc = "read" THEN "readValue" ELSE "infer",
       ![i].val = cache[sessions[calls[i].sess].key].val]
  /\ UNCHANGED <<cache, running, sessions, chain>>
  /\ UNCHANGED other

\* agents.getSession: agents.caches[cache].get(id + '-progress') answers
GetSessionReadProgress(i) ==
  /\ i \in 1..Len(calls)
  /\ calls[i].pc \in {"read", "readValue"}
  /\ calls' = [calls EXCEPT
       ![i].pc = IF calls[i].pc = "read" THEN "readProgress" ELSE "infer",
       ![i].prog = cache[ProgressKey(sessions[calls[i].sess].key)].val]
  /\ UNCHANGED <<cache, running, sessions, chain>>
  /\ UNCHANGED other

\* agents.getSession: the two cache reads (value, progress record), which
\* are issued together and answer in either order.
GetSessionRead(i) ==
  \/ GetSessionReadValue(i)
  \/ GetSessionReadProgress(i)

\* A status inferred from the value read alone.
InferStatusByCache(k, result) ==
  IF IsObject(result) /\ IsErrorOnly(result) THEN "error"
  ELSE IF IsObject(result) THEN "complete"
  ELSE "error"

\* The status getSession infers from the coalescer and the value read.
InferStatus(k, result) ==
  IF running[k] # 0 THEN "pending"
  ELSE IF IsObject(result) /\ IsErrorOnly(result) THEN "error"
  ELSE IF IsObject(result) THEN "complete"
  ELSE "error"

\* agents.getSession: the .then that fills the session in.
GetSessionInfer(i) ==
  /\ Pending(i, "infer")
  /\ LET s == calls[i].sess
         k == sessions[s].key
         result == calls[i].val
     IN
       sessions' = [sessions EXCEPT
         ![s].result = result,
         ![s].progress = calls[i].prog,
         ![s].status = InferStatus(k, result),
         ![s].error = IF running[k] = 0 /\ IsObject(result) /\ IsErrorOnly(result)
                        THEN "error" ELSE @]
  /\ calls' = [calls EXCEPT ![i].pc = "done",
                            ![i].ret = [st |-> "resolved", val |-> SessionRef]]
  /\ UNCHANGED <<cache, running, chain>>
  /\ UNCHANGED other

(* ------------------------------- cache --------------------------------- *)

\* An entry stored with an expiry instant is dropped once that instant passes.
Expire(k) ==
  /\ k \in Keys
  /\ cache[k].exp
  /\ cache' = [cache EXCEPT ![k] = Absent]
  /\ UNCHANGED <<running, sessions, chain, calls>>
  /\ UNCHANGED other

(* ------------------------ deriving cache keys -------------------------- *)

\* The key names and values the settings of a derivation are made of.
TopKeyNames == << <<"a">>, <<"b">>, <<"a", "b">> >>
TopKeys ==
  {TopKeyNames[i] :
     i \in 1..(IF MaxTopKeys < Len(TopKeyNames) THEN MaxTopKeys ELSE Len(TopKeyNames))}
HintKey == <<"$", "a">>
NestedKeys == {<<"a">>, <<"b">>}
HintValues == {Atom("1"), Atom("2")}

\* The member sequences with at most n members, distinct keys from keys and
\* values from vals.
MembersOver(keys, vals, n) ==
  {ms \in UNION {[1..m -> [k : keys, v : vals]] : m \in 0..n} :
     \A i, j \in DOMAIN ms : i # j => ms[i].k # ms[j].k}

\* A nested object as the caller first built it, and an array holding one;
\* the other orders of their keys come from the swaps below.
NestedValues == {Obj(<< [k |-> <<"a">>, v |-> Atom("1")], [k |-> <<"b">>, v |-> Atom("1")] >>)}
ArrayValues == {Arr(<<Atom("1"), o>>) : o \in NestedValues}
TopValues == {Atom("1"), Atom("2")} \cup NestedValues \cup ArrayValues
SettingsGiven == {Obj(ms) : ms \in MembersOver(TopKeys, TopValues, MaxTopKeys)}

\* agents.getKey applied to the settings given and to the variant of them.
Derived(id, given, variant) ==
  [id |-> id, given |-> given, variant |-> variant,
   givenKey |-> getKey(id, given), variantKey |-> getKey(id, variant)]

\* A caller is about to derive keys for some settings.
InitKey ==
  /\ cache = [k \in AllKeys |-> Absent]
  /\ running = [k \in Keys |-> 0]
  /\ sessions = [i \in CallIds |-> NoSession]
  /\ chain = [i \in CallIds |-> NoChain]
  /\ calls = <<>>
  /\ kq \in {Derived("primes", given, given) : given \in SettingsGiven}
  /\ life = LifeReady
  /\ pm = PmIdle

\* The members with those at i and i + 1 exchanged.
Swap(ms, i) == [ms EXCEPT ![i] = ms[i + 1], ![i + 1] = ms[i]]

\* The same settings built with two top-level keys in the other order.
KeySwap(i) ==
  /\ i \in 1..(Len(kq.variant.o) - 1)
  /\ kq' = Derived(kq.id, kq.given, Obj(Swap(kq.variant.o, i)))
  /\ UNCHANGED <<core, life, pm>>

\* The same settings with two keys of a nested object in the other order.
KeySwapNested(i, j) ==
  /\ i \in 1..Len(kq.variant.o)
  /\ kq.variant.o[i].v.t = "obj"
  /\ j \in 1..(Len(kq.variant.o[i].v.o) - 1)
  /\ kq' = Derived(kq.id, kq.given,
                   Obj([kq.variant.o EXCEPT ![i].v = Obj(Swap(@.o, j))]))
  /\ UNCHANGED <<core, life, pm>>

\* The same settings with two keys of an object held in an array in the
\* other order.
KeySwapInArray(i, j) ==
  /\ i \in 1..Len(kq.variant.o)
  /\ kq.variant.o[i].v.t = "arr"
  /\ \E e \in 1..Len(kq.variant.o[i].v.o) :
       /\ kq.variant.o[i].v.o[e].v.t = "obj"
       /\ j \in 1..(Len(kq.variant.o[i].v.o[e].v.o) - 1)
       /\ kq' = Derived(kq.id, kq.given,
                        Obj([kq.variant.o EXCEPT ![i].v.o[e].v = Obj(Swap(@.o, j))]))
  /\ UNCHANGED <<core, life, pm>>

\* settings['$a'] = x: replaced in place when present, added last otherwise.
WithHint(ms, x) ==
  IF \E i \in 1..Len(ms) : ms[i].k = HintKey
    THEN [i \in 1..Len(ms) |-> IF ms[i].k = HintKey THEN [k |-> HintKey, v |-> x] ELSE ms[i]]
    ELSE Append(ms, [k |-> HintKey, v |-> x])

\* The caller adds or changes a '$' hint.
KeySetHint(x) ==
  /\ kq.id # ""
  /\ kq' = Derived(kq.id, kq.given, Obj(WithHint(kq.variant.o, x)))
  /\ UNCHANGED <<core, life, pm>>

IsNotHint(member) == member.k # HintKey

\* delete settings['$a']
KeyDropHint ==
  /\ \E i \in 1..Len(kq.variant.o) : kq.variant.o[i].k = HintKey
  /\ kq' = Derived(kq.id, kq.given, Obj(SelectSeq(kq.variant.o, IsNotHint)))
  /\ UNCHANGED <<core, life, pm>>

NextKey ==
  \/ \E i \in 1..MaxTopKeys : KeySwap(i)
  \/ \E i \in 1..(MaxTopKeys + 1), j \in 1..Cardinality(NestedKeys) : KeySwapNested(i, j)
  \/ \E i \in 1..(MaxTopKeys + 1), j \in 1..Cardinality(NestedKeys) : KeySwapInArray(i, j)
  \/ \E x \in HintValues : KeySetHint(x)
  \/ KeyDropHint

SpecKey == InitKey /\ [][NextKey]_vars

(* ------------------------------ destroy -------------------------------- *)

\* agents.destroy, first .then: this.emit('destroy')
DestroyEmit ==
  /\ life.pc = "ready"
  /\ life' = [life EXCEPT !.pc = "teardown", !.events = Append(@, "destroy")]
  /\ UNCHANGED <<core, kq, pm>>

\* The destroy() calls the second .then makes: Promise.all is handed an array
\* of two functions, which it passes through as values without calling
\* them, so no runner and no cache backend is reached.
TeardownCalls == {}

\* agents.destroy, second .then
DestroyTeardown ==
  /\ life.pc = "teardown"
  /\ life' = [life EXCEPT
       !.pc = "pause",
       !.caches = [m \in CacheModules |->
                     IF m \in TeardownCalls THEN "destroyed" ELSE @[m]],
       !.runners = [r \in RunnerModules |->
                     IF HasDestroy(r) /\ r \in TeardownCalls THEN "destroyed" ELSE @[r]]]
  /\ UNCHANGED <<core, kq, pm>>

\* agents.destroy, third .then: scheduler.pause()
DestroyPause ==
  /\ life.pc = "pause"
  /\ life' = [life EXCEPT !.pc = "emitDestroyed", !.scheduler = "paused"]
  /\ UNCHANGED <<core, kq, pm>>

\* agents.destroy, last .then: this.emit('destroyed'); destroy() resolves
DestroyDone ==
  /\ life.pc = "emitDestroyed"
  /\ life' = [life EXCEPT !.pc = "destroyed", !.events = Append(@, "destroyed")]
  /\ UNCHANGED <<core, kq, pm>>

\* agent.cronJob: the periodic task of agent a is installed. Its callback
\* returns the promise of run to the scheduler; the scheduler keeps the task
\* whatever that promise settles to.
Task(a) == a \in life.tasks

\* The scheduler finds the periodic task of agent a due and calls it:
\* agents.emit('tick', agent.id); return agents.run(agent.id). A stopped or
\* paused scheduler calls no task.
CronFire(a) ==
  /\ life.scheduler = "started"
  /\ Task(a)
  /\ Enter(NewCall("tick", a, "promise", FALSE, Len(calls) + 1, "attach"))
  /\ life' = [life EXCEPT !.ticks = @ + 1]
  /\ UNCHANGED <<kq, pm>>

\* An orchestrator serving runs and gets of primes and the periodic task of
\* timed1 while destroy() is called.
NextLifecycle ==
  \/ \E w \in {"promise"} : CallRun("primes", w)
  \/ \E a \in {"primes"} : CallGet(a, FALSE)
  \/ \E a \in TimedAgents : CronFire(a)
  \/ \E i \in CallIds : GetProbe(i)
  \/ \E i \in CallIds : RunAttach(i)
  \/ \E s \in CallIds : RunStart(s)
  \/ \E s \in CallIds : WorkerFail(s)
  \/ \E s \in CallIds, v \in {VArr} : WorkerFinish(s, v)
  \/ \E s \in CallIds : CacheSet(s)
  \/ \E s \in CallIds : DeferSettle(s)
  \/ \E s \in CallIds : Remove(s)
  \/ DestroyEmit
  \/ DestroyTeardown
  \/ DestroyPause
  \/ DestroyDone

SpecLifecycle == Init /\ [][NextLifecycle]_vars

(* -------------------------------- init --------------------------------- *)

\* The orchestrator as constructed (autoInit: false), init() just called.
LifeNew(autoInstall, allowImmediate) ==
  [pc |-> "new", events |-> <<>>, scheduler |-> "stopped",
   caches |-> [m \in CacheModules |-> "none"],
   runners |-> [r \in RunnerModules |-> "loaded"],
   autoInstall |-> autoInstall, allowImmediate |-> allowImmediate,
   tasks |-> {}, ticks |-> 0, init |-> "pending"]

\* settings.autoInstall and settings.allowImmediate are the caller's choice;
\* the cache may hold a result of primes that an earlier process stored, and
\* none of a timed agent.
InitBoot ==
  /\ cache \in {[[k \in AllKeys |-> Absent] EXCEPT !["primes"] = e] : e \in Persisted}
  /\ running = [k \in Keys |-> 0]
  /\ sessions = [i \in CallIds |-> NoSession]
  /\ chain = [i \in CallIds |-> NoChain]
  /\ calls = <<>>
  /\ kq = NoQuery
  /\ pm = PmIdle
  /\ life \in {LifeNew(b, c) : b \in BOOLEAN, c \in BOOLEAN}

\* agents.init, first .then: agents.emit('init')
InitEmit ==
  /\ life.pc = "new"
  /\ life' = [life EXCEPT !.pc = "refresh", !.events = Append(@, "init")]
  /\ UNCHANGED <<core, kq, pm>>

\* agents.init, second .then: agents.refresh() loads the agent definitions
\* and emits 'refresh'
InitRefresh ==
  /\ life.pc = "refresh"
  /\ life' = [life EXCEPT !.pc = "caches", !.events = Append(@, "refresh")]
  /\ UNCHANGED <<core, kq, pm>>

\* agents.initCaches: every configured backend is constructed and its
\* init() called
InitCaches ==
  /\ life.pc = "caches"
  /\ life' = [life EXCEPT !.pc = "cachesWait",
                          !.caches = [m \in CacheModules |-> "initialising"]]
  /\ UNCHANGED <<core, kq, pm>>

\* The init() of backend m resolves.
CacheInitDone(m) ==
  /\ life.caches[m] = "initialising"
  /\ life' = [life EXCEPT !.caches[m] = "ready"]
  /\ UNCHANGED <<core, kq, pm>>

\* The init() of backend m rejects.
CacheInitFail(m) ==
  /\ life.caches[m] = "initialising"
  /\ life' = [life EXCEPT !.caches[m] = "failed"]
  /\ UNCHANGED <<core, kq, pm>>

\* A join that goes on as soon as one backend is initialised.
AnyInitialised(caches) == \E m \in CacheModules : caches[m] = "ready"

\* Promise.all(...) of initCaches resolves: every init() has resolved.
AllInitialised(caches) == \A m \in CacheModules : caches[m] = "ready"

\* agents.init goes on after initCaches
InitCachesJoin ==
  /\ life.pc = "cachesWait"
  /\ AllInitialised(life.caches)
  /\ life' = [life EXCEPT !.pc = "cron"]
  /\ UNCHANGED <<core, kq, pm>>

\* Promise.all(...) of initCaches rejects with the first failure; no later
\* .then of init runs and init() rejects.
InitCachesReject ==
  /\ life.pc = "cachesWait"
  /\ \E m \in CacheModules : life.caches[m] = "failed"
  /\ life' = [life EXCEPT !.pc = "failed", !.init = "rejected"]
  /\ UNCHANGED <<core, kq, pm>>

\* An initCron that installs nothing.
CronTasksNone(autoInstall) == {}

\* The agents initCron creates a scheduler.Task for.
CronTasks(autoInstall) == IF autoInstall THEN TimedAgents ELSE {}

RECURSIVE Repeat(_, _)
\* n times the event e
Repeat(e, n) == IF n = 0 THEN <<>> ELSE <<e>> \o Repeat(e, n - 1)

\* agents.initCron: a task and one 'scheduled' event per agent with a timing
InitCron ==
  /\ life.pc = "cron"
  /\ life' = [life EXCEPT
       !.pc = "immediate",
       !.tasks = CronTasks(life.autoInstall),
       !.events = @ \o Repeat("scheduled", Cardinality(CronTasks(life.autoInstall)))]
  /\ UNCHANGED <<core, kq, pm>>

\* The agents init() runs itself: none when settings.allowImmediate is
\* off, else those marked immediate.
ImmediateRuns(allowImmediate) == IF allowImmediate THEN ImmediateAgents ELSE {}

\* agents.init: if (!agents.settings.allowImmediate) return; else
\* emit('runImmediate', agent.id) and agents.run(agent.id), not waited for,
\* for the agent marked immediate (the registry holds one).
InitRunImmediate ==
  /\ life.pc = "immediate"
  /\ IF ImmediateRuns(life.allowImmediate) = {} THEN
       /\ life' = [life EXCEPT !.pc = "start"]
       /\ UNCHANGED <<core, kq, pm>>
     ELSE
       \E a \in ImmediateRuns(life.allowImmediate) :
         /\ life' = [life EXCEPT !.pc = "start", !.events = Append(@, "runImmediate")]
         /\ calls' = Append(calls, NewCall("immediate", a, "promise", FALSE,
                                           Len(calls) + 1, "attach"))
         /\ sessions' = [sessions EXCEPT ![Len(calls) + 1] = createSession(a)]
         /\ UNCHANGED <<cache, running, chain, kq, pm>>

\* agents.init: scheduler.start()
InitSchedulerStart ==
  /\ life.pc = "start"
  /\ life' = [life EXCEPT !.pc = "emitReady", !.scheduler = "started"]
  /\ UNCHANGED <<core, kq, pm>>

\* agents.init: agents.emit('ready')
InitReady ==
  /\ life.pc = "emitReady"
  /\ life' = [life EXCEPT !.pc = "resolve", !.events = Append(@, "ready")]
  /\ UNCHANGED <<core, kq, pm>>

\* agents.init, last .then: init() resolves
InitResolve ==
  /\ life.pc = "resolve"
  /\ life' = [life EXCEPT !.pc = "ready", !.init = "resolved"]
  /\ UNCHANGED <<core, kq, pm>>

\* The steps of init().
InitSteps ==
  \/ InitEmit
  \/ InitRefresh
  \/ InitCaches
  \/ \E m \in CacheModules : CacheInitDone(m)
  \/ \E m \in CacheModules : CacheInitFail(m)
  \/ InitCachesJoin
  \/ InitCachesReject
  \/ InitCron
  \/ InitRunImmediate
  \/ InitSchedulerStart
  \/ InitReady
  \/ InitResolve

\* A caller runs an agent once init() has resolved.
CallerRun(a) ==
  /\ life.init = "resolved"
  /\ CallRun(a, "promise")

\* init(), then the periodic tasks and callers' runs of the timed agents,
\* with workers that succeed or fail.
NextBoot ==
  \/ InitSteps
  \/ \E a \in TimedAgents : CronFire(a)
  \/ \E a \in TimedAgents : CallerRun(a)
  \/ \E i \in CallIds : RunAttach(i)
  \/ \E s \in CallIds : RunStart(s)
  \/ \E s \in CallIds : WorkerFail(s)
  \/ \E s \in CallIds, v \in {VArr} : WorkerFinish(s, v)
  \/ \E s \in CallIds : CacheSet(s)
  \/ \E s \in CallIds : DeferSettle(s)
  \/ \E s \in CallIds : Remove(s)

SpecBoot == InitBoot /\ [][NextBoot]_vars

\* init(), then the periodic tasks and callers' runs of the timed agents,
\* with workers that hand a result to finish, as the worker of timed1 does.
NextBootOk ==
  \/ InitSteps
  \/ \E a \in TimedAgents : CronFire(a)
  \/ \E a \in TimedAgents : CallerRun(a)
  \/ \E i \in CallIds : RunAttach(i)
  \/ \E s \in CallIds : RunStart(s)
  \/ \E s \in CallIds, v \in {VArr} : WorkerFinish(s, v)
  \/ \E s \in CallIds : CacheSet(s)
  \/ \E s \in CallIds : DeferSettle(s)
  \/ \E s \in CallIds : Remove(s)

\* A running scheduler calls a task whose schedule keeps coming due; the
\* event loop runs every continuation that is ready; the worker calls
\* finish before it returns. Nothing makes a caller ask for anything.
BootFairness ==
  /\ WF_vars(InitSteps)
  /\ \A a \in TimedAgents : WF_vars(CronFire(a))
  /\ \A i \in CallIds :
       /\ WF_vars(RunAttach(i))
       /\ WF_vars(RunStart(i))
       /\ WF_vars(WorkerFinish(i, VArr))
       /\ WF_vars(CacheSet(i))
       /\ WF_vars(DeferSettle(i))
       /\ WF_vars(Remove(i))

SpecBootFair == InitBoot /\ [][NextBootOk]_vars /\ BootFairness

(* ------------------- the queued execution, step by step ---------------- *)

\* What the filesystem backend may hold when the orchestrator starts: as
\* Init, and possibly the progress record of a run of primes that an
\* earlier process left behind.
StaleProgress == [val |-> VArr, exp |-> FALSE, by |-> 0]
InitOrder ==
  /\ cache \in {[[k \in AllKeys |-> Absent]
                   EXCEPT !["primes"] = e, ![ProgressKey("primes")] = p] :
                 e \in Persisted, p \in {Absent, StaleProgress}}
  /\ running = [k \in Keys |-> 0]
  /\ sessions = [i \in CallIds |-> NoSession]
  /\ chain = [i \in CallIds |-> NoChain]
  /\ calls = <<>>
  /\ kq = NoQuery
  /\ pm = PmIdle
  /\ life = LifeReady

\* Runs of primes, each .then of the queued chain a step of its own.
NextOrder ==
  \/ \E w \in {"promise", "session"} : CallRun("primes", w)
  \/ \E i \in CallIds : RunAttach(i)
  \/ \E s \in CallIds : RunStart(s)
  \/ \E s \in CallIds : WorkerFail(s)
  \/ \E s \in CallIds, v \in {VArr} : WorkerFinish(s, v)
  \/ \E s \in CallIds : CacheSet(s)
  \/ \E s \in CallIds : DeferSettle(s)
  \/ \E s \in CallIds : Remove(s)

SpecOrder == InitOrder /\ [][NextOrder]_vars

(* ----------------------------- pm2 runner ------------------------------ *)

\* settings.runner.pm2.procName: cacheKey => cacheKey
procName(k) == k

\* proc[0].process.pid of the child pm2.start creates for session s.
PidOf(s) == s + 1
\* The pid of a process that some other start created.
OtherPid == 1
\* pm2_env.created_at of the child, in seconds (procStarted.setMilliseconds(0)).
StartedAt == 1
\* .slice(-5): the lines of the log tail the post-mortem looks at.
TailLines == 5

\* The execution of the pm2 runner for session s is at pc.
Pm2At(s, pc) ==
  /\ s \in CallIds
  /\ chain[s].pc = "working"
  /\ sessions[s].runner = "pm2"
  /\ pm.exec[s].pc = pc

\* async-chainable: next(err) skips every later step of the chain, the
\* parallel step included, and the promise of exec rejects with err;
\* .finally(()=> pm2.disconnect()) closes the client.
Pm2Fail(s, err, classified) ==
  /\ pm' = [pm EXCEPT !.exec[s].pc = "failed",
                      !.exec[s].classified = classified,
                      !.conn = FALSE]
  /\ chain' = [chain EXCEPT ![s].pc = "execDone", ![s].out = err, ![s].ok = FALSE]
  /\ UNCHANGED <<cache, running, sessions, calls, kq, life>>

\* pm2.connect(next)
Pm2Connect(s) ==
  /\ Pm2At(s, "idle")
  /\ pm' = [pm EXCEPT !.exec[s].pc = "describe", !.conn = TRUE]
  /\ UNCHANGED <<core, kq, life>>

\* pm2.connect calls back with an error
Pm2ConnectFail(s) ==
  /\ Pm2At(s, "idle")
  /\ Pm2Fail(s, "connect error", FALSE)

\* pm2.describe(procName) answers with a non-empty list
Exists(name) == pm.procs[name] # <<>>

\* Check if the process is already registered
Pm2Describe(s) ==
  /\ Pm2At(s, "describe")
  /\ pm' = [pm EXCEPT !.exec[s].pc =
              IF Exists(procName(sessions[s].key)) THEN "deleting" ELSE "start"]
  /\ UNCHANGED <<core, kq, life>>

\* Check if the process is already registered: pm2.describe calls back
\* with an error, which the test takes for "doesn't exist": next() without
\* a delete, whether or not a process is listed under the name.
Pm2DescribeError(s) ==
  /\ Pm2At(s, "describe")
  /\ pm' = [pm EXCEPT !.exec[s].pc = "start"]
  /\ UNCHANGED <<core, kq, life>>

\* pm2.delete(procName, ()=> next()): every process under the name goes
Pm2DeleteStale(s) ==
  /\ Pm2At(s, "deleting")
  /\ pm' = [pm EXCEPT !.procs[procName(sessions[s].key)] = <<>>,
                      !.exec[s].pc = "start",
                      !.exec[s].deleted = TRUE]
  /\ UNCHANGED <<core, kq, life>>

\* pm2.start(execFile, {name: procName, ...}): a new process under the name
Pm2Start(s) ==
  /\ Pm2At(s, "start")
  /\ pm' = [pm EXCEPT
       !.procs[procName(sessions[s].key)] = Append(@, [pid |-> PidOf(s), by |-> s]),
       !.exec[s].pc = "poll",
       !.exec[s].pid = PidOf(s)]
  /\ UNCHANGED <<core, kq, life>>

\* pm2.start calls back with an error
Pm2StartFail(s) ==
  /\ Pm2At(s, "start")
  /\ Pm2Fail(s, "start error", FALSE)

\* What pm2.describe can answer about the child of session s while a process
\* is listed under its name: the supervisor's status, proc[0].pid and
\* pm2_env.exit_code. An entry can lack a status; a finished process has pid 0.
Describes(s) ==
  { Proc("launching", PidOf(s), NoExit), Proc("online", PidOf(s), NoExit),
    Proc("online", 0, 0), Proc("online", 0, 1),
    Proc("stopping", 0, 0), Proc("stopping", 0, 1),
    Proc("stopped", 0, 0), Proc("stopped", 0, 1), Proc("stopped", 0, NoExit),
    ProcLogged("stopped", 0, 1, ErrLogPath),
    Proc("errored", 0, 1), Proc("waiting restart", 0, 1), Proc("", 0, NoExit) }

\* var status = ...: the first alternative asks for proc to equal [[]] and
\* [] at once and is never taken; an answer without pm2_env.status, the
\* empty list among them, gives 'unknown'; online with pid 0 counts as stopped.
Status(proc) ==
  LET status == IF proc.listed /\ proc.status # "" THEN proc.status ELSE "unknown"
  IN IF status = "online" /\ proc.pid = 0 THEN "stopped" ELSE status

\* A switch that takes every stopped process for a success.
ClassifyIgnoresExit(proc, scan) ==
  LET status == Status(proc)
  IN CASE status \in {"launching", "online"} -> "wait"
       [] status \in {"stopping", "stopped"} -> IF scan THEN "scan" ELSE "ok"
       [] status = "errored" -> "PM2 process errored out"
       [] status = "unknown" -> "Unknown PM2 process status"
       [] OTHER -> "Unknown PM2 status: " \o status

\* switch (status): poll again, go on (to the log scan when enabled), or
\* the error the chain ends with.
Classify(proc, scan) ==
  LET status == Status(proc)
      exitCode == IF proc.exit = NoExit THEN 0 ELSE proc.exit
  IN CASE status \in {"launching", "online"} -> "wait"
       [] status \in {"stopping", "stopped"} ->
            IF exitCode = 0 THEN (IF scan THEN "scan" ELSE "ok")
            ELSE "Non-zero exit code: " \o ToString(exitCode) \o " see " \o proc.errLog
       [] status = "errored" -> "PM2 process errored out"
       [] status = "unknown" -> "Unknown PM2 process status"
       [] OTHER -> "Unknown PM2 status: " \o status

\* checkProcess: pm2.describe answers d and the switch takes its branch.
Pm2Poll(s, d) ==
  /\ Pm2At(s, "poll")
  /\ IF Exists(procName(sessions[s].key)) THEN d \in Describes(s) ELSE d = Gone
  /\ LET c == Classify(d, pm.scan) IN
       IF c = "wait" THEN
         /\ pm' = [pm EXCEPT !.exec[s].last = d, !.exec[s].polled = TRUE]
         /\ UNCHANGED <<core, kq, life>>
       ELSE IF c \in {"ok", "scan"} THEN
         /\ pm' = [pm EXCEPT !.exec[s].last = d, !.exec[s].polled = TRUE,
                             !.exec[s].classified = TRUE,
                             !.exec[s].pc = IF c = "ok" THEN "parallel" ELSE "scan"]
         /\ UNCHANGED <<core, kq, life>>
       ELSE
         /\ pm' = [pm EXCEPT !.exec[s].last = d, !.exec[s].polled = TRUE,
                             !.exec[s].classified = TRUE,
                             !.exec[s].pc = "failed", !.conn = FALSE]
         /\ chain' = [chain EXCEPT ![s].pc = "execDone", ![s].out = c, ![s].ok = FALSE]
         /\ UNCHANGED <<cache, running, sessions, calls, kq, life>>

\* checkProcess: pm2.describe calls back with an error
Pm2PollError(s) ==
  /\ Pm2At(s, "poll")
  /\ Pm2Fail(s, "describe error", FALSE)

(* the log post-mortem *)

\* A line of the supervisor's log: which of the three patterns its text
\* fits ("pid" for 'PM2 log: pid=N msg=...', "exited" for 'App [name:N]
\* exited with code [N] via signal [S]', "stopped" for 'PM2 successfully
\* stopped', "noise" for anything else) and the fields the text carries.
Line(text, pid, name, date, signal, exitCode) ==
  [text |-> text, pid |-> pid, name |-> name, date |-> date, signal |-> signal,
   exitCode |-> exitCode]
Noise == Line("noise", 0, "", 0, "", 0)

\* The lines a log may hold around the run of the child pid of process name.
LogLines(pid, name) ==
  { Line("pid", pid, "", StartedAt, "", 0),
    Line("pid", OtherPid, "", StartedAt, "", 0),
    Line("pid", pid, "", StartedAt - 1, "", 0),
    Line("exited", 0, name, StartedAt, "SIGTERM", 0),
    Line("exited", 0, name, StartedAt, "SIGKILL", 1),
    Line("exited", 0, "other", StartedAt, "SIGKILL", 1),
    Line("exited", 0, name, StartedAt - 1, "SIGTERM", 0),
    Line("exited", 0, name, StartedAt, "SIGINT", 0),
    Line("stopped", 0, "", StartedAt, "", 0),
    Noise }

\* No event: what .map gives for a line none of the patterns fits.
NoEvent == [type |-> "", pid |-> 0, name |-> "", date |-> 0, signal |-> "", exitCode |-> 0]

\* .map(line => ...): the event a line parses to. The second pattern takes
\* only the signals SIGTERM and SIGKILL; the third carries no field.
ParseLine(line) ==
  IF line.text = "pid"
    THEN [NoEvent EXCEPT !.type = "processKill", !.pid = line.pid, !.date = line.date]
  ELSE IF line.text = "exited" /\ line.signal \in {"SIGTERM", "SIGKILL"}
    THEN [NoEvent EXCEPT !.type = "processSignal", !.name = line.name,
                         !.date = line.date, !.signal = line.signal,
                         !.exitCode = line.exitCode]
  ELSE IF line.text = "stopped"
    THEN [NoEvent EXCEPT !.type = "pm2Kill"]
  ELSE NoEvent

\* A filter that takes every event for one of this run.
RelevantAll(item, pid, name, procStarted) == item # NoEvent

\* .filter(item => ...): the events that belong to this run
Relevant(item, pid, name, procStarted) ==
  /\ item # NoEvent
  /\ \/ item.type = "processKill" /\ item.pid = pid /\ item.date >= procStarted
     \/ item.type = "processSignal" /\ item.name = name /\ item.date >= procStarted
     \/ item.type = "pm2Kill"

\* content.split('\n').slice(-5)
LastLines(log) ==
  IF Len(log) <= TailLines THEN log ELSE SubSeq(log, Len(log) - TailLines + 1, Len(log))

RECURSIVE Items(_, _, _, _)
\* The relevant events of the lines, in the order of the lines.
Items(lines, pid, name, procStarted) ==
  IF lines = <<>> THEN <<>>
  ELSE LET item == ParseLine(Head(lines))
           rest == Items(Tail(lines), pid, name, procStarted)
       IN IF Relevant(item, pid, name, procStarted) THEN <<item>> \o rest ELSE rest

\* .then(items => ...): the error next is called with, or "ok" for next()
Decide(items) ==
  LET Of(type) == {i \in 1..Len(items) : items[i].type = type} IN
  IF Of("processKill") # {} THEN "Process killed by PM2"
  ELSE IF Of("processSignal") # {}
    THEN LET match == items[CHOOSE i \in Of("processSignal") :
                              \A j \in Of("processSignal") : i <= j]
         IN "Proceess killed by system (" \o match.signal \o " exit code "
              \o ToString(match.exitCode) \o ")"
  ELSE IF Of("pm2Kill") # {} THEN "PM2 God is dead"
  ELSE "ok"

\* The whole post-mortem on the log as read.
PostMortem(log, pid, name, procStarted) ==
  Decide(Items(LastLines(log), pid, name, procStarted))

\* A line followed by NUL characters up to the end of the buffer: the first
\* pattern ends in msg=(.*)$ and takes them into msg; the other two end in
\* the text of the line and fit no longer.
Padded(line) == IF line.text = "pid" THEN line ELSE Noise

\* res.buffer.toString().split('\n'): the whole buffer of logFileTailSize
\* bytes is converted, not the bytes read. Of a file that fills it the
\* elements are the lines of the file; of a shorter file, read from the
\* current position, the last element ends in the NUL characters that the
\* read left in the buffer. (Log is the text between the newlines, so a file
\* that ends in a newline has a last line of nothing, which is Noise.)
content(log, file) ==
  IF file = "short" /\ log # <<>> THEN [log EXCEPT ![Len(log)] = Padded(@)] ELSE log

\* The log tail has been read: the post-mortem decides.
Pm2Scan(s) ==
  /\ Pm2At(s, "scan")
  /\ pm.file # "missing"
  /\ LET r == PostMortem(content(pm.log, pm.file), pm.exec[s].pid,
                         procName(sessions[s].key), StartedAt) IN
       IF r = "ok" THEN
         /\ pm' = [pm EXCEPT !.exec[s].pc = "parallel"]
         /\ UNCHANGED <<core, kq, life>>
       ELSE
         /\ pm' = [pm EXCEPT !.exec[s].pc = "failed", !.conn = FALSE]
         /\ chain' = [chain EXCEPT ![s].pc = "execDone", ![s].out = r, ![s].ok = FALSE]
         /\ UNCHANGED <<cache, running, sessions, calls, kq, life>>

(* the parallel step *)

\* value: session.cacher.get(session.cacheKey)
Pm2ReadValue(s) ==
  /\ Pm2At(s, "parallel")
  /\ ~pm.exec[s].read
  /\ pm' = [pm EXCEPT !.exec[s].read = TRUE, !.exec[s].value = cache[sessions[s].key].val]
  /\ UNCHANGED <<core, kq, life>>

\* pm2Cleaner: pm2.delete(procName, ...); an error is only warned about
Pm2Clean(s) ==
  /\ Pm2At(s, "parallel")
  /\ ~pm.exec[s].cleaned
  /\ pm' = [pm EXCEPT !.procs[procName(sessions[s].key)] = <<>>,
                      !.exec[s].cleaned = TRUE]
  /\ UNCHANGED <<core, kq, life>>

\* .promise('value'): both parallel tasks are done and exec resolves;
\* .finally(()=> pm2.disconnect()) closes the client.
Pm2Resolve(s) ==
  /\ Pm2At(s, "parallel")
  /\ pm.exec[s].read /\ pm.exec[s].cleaned
  /\ pm' = [pm EXCEPT !.exec[s].pc = "resolved", !.conn = FALSE]
  /\ chain' = [chain EXCEPT ![s].pc = "execDone", ![s].out = pm.exec[s].value,
                            ![s].ok = TRUE]
  /\ UNCHANGED <<cache, running, sessions, calls, kq, life>>

(* the environment of the pm2 runner *)

\* The processes under a name leave the supervisor's list by another hand
\* (pm2 delete from a shell, a restarted daemon) while a run polls for one.
ProcVanish(k) ==
  /\ pm.procs[k] # <<>>
  /\ \E s \in CallIds : pm.exec[s].pc = "poll" /\ procName(sessions[s].key) = k
  /\ pm' = [pm EXCEPT !.procs[k] = <<>>]
  /\ UNCHANGED <<core, kq, life>>

\* The child of session s (run-agent: agents.run(session) under the inline
\* runner, then process.exit) stores the worker's result in the cache when
\* the agent has one to store. It stores before it exits: not once the
\* supervisor has answered the poll loop that it is past launching/online.
ChildStash(s) ==
  /\ s \in CallIds
  /\ sessions[s].runner = "pm2"
  /\ Registry[sessions[s].agent].hasReturn
  /\ \E n \in 1..Len(pm.procs[procName(sessions[s].key)]) :
       pm.procs[procName(sessions[s].key)][n].by = s
  /\ pm.exec[s].polled => Status(pm.exec[s].last) \in {"launching", "online"}
  /\ cache[sessions[s].key].by # s
  /\ cache' = [cache EXCEPT ![sessions[s].key] =
                 [val |-> VArr, exp |-> Registry[sessions[s].agent].expires # "", by |-> s]]
  /\ UNCHANGED <<running, sessions, chain, calls>>
  /\ UNCHANGED other

\* A request whose session is given the runner that settings.runner.calculate
\* answers with, here reconfigured (as the tests do: calculate = ()=> 'pm2').
EnterOn(c, runner) ==
  /\ Budget
  /\ calls' = Append(calls, c)
  /\ sessions' = [sessions EXCEPT ![c.sess] =
                    [createSession(c.agent) EXCEPT !.runner = runner]]
  /\ UNCHANGED <<cache, running, chain>>
  /\ UNCHANGED other

\* agents.run(id) under that configuration
CallRunOn(a, runner) ==
  EnterOn(NewCall("run", a, "promise", FALSE, Len(calls) + 1, "attach"), runner)

\* A process an earlier orchestrator left under the name of primes.
StaleProc == [pid |-> OtherPid, by |-> 0]

\* The supervisor may list a stale process; the log tail is empty or holds a
\* kill of the child of the first run; logFileScan is the caller's choice.
InitPm2 ==
  /\ cache \in {[[k \in AllKeys |-> Absent] EXCEPT !["primes"] = e] : e \in Persisted}
  /\ running = [k \in Keys |-> 0]
  /\ sessions = [i \in CallIds |-> NoSession]
  /\ chain = [i \in CallIds |-> NoChain]
  /\ calls = <<>>
  /\ kq = NoQuery
  /\ life = LifeReady
  /\ pm \in {[PmIdle EXCEPT !.procs["primes"] = p, !.scan = b, !.log = l] :
               p \in {<<>>, <<StaleProc>>}, b \in BOOLEAN,
               l \in {<<>>, <<Line("pid", PidOf(1), "", StartedAt, "", 0)>>}}

\* The steps of one execution of the pm2 runner, pm2.describe answering the
\* poll loop from D.
Pm2Steps(s, D) ==
  \/ Pm2Connect(s)
  \/ Pm2ConnectFail(s)
  \/ Pm2Describe(s)
  \/ Pm2DescribeError(s)
  \/ Pm2DeleteStale(s)
  \/ Pm2Start(s)
  \/ Pm2StartFail(s)
  \/ \E d \in D : Pm2Poll(s, d)
  \/ Pm2PollError(s)
  \/ Pm2Scan(s)
  \/ Pm2ReadValue(s)
  \/ Pm2Clean(s)
  \/ Pm2Resolve(s)

\* A child that is seen running, then stopped with exit code 0 or 1.
PlainDescribes(s) ==
  {Proc("online", PidOf(s), NoExit), Proc("stopped", 0, 0), Proc("stopped", 0, 1)}

\* Runs of primes under the pm2 runner, one after the other.
NextPm2 ==
  \/ CallRunOn("primes", "pm2")
  \/ \E i \in CallIds : RunAttach(i)
  \/ \E s \in CallIds : RunStart(s)
  \/ \E s \in CallIds : Pm2Steps(s, PlainDescribes(s) \cup {Gone})
  \/ \E k \in Keys : ProcVanish(k)
  \/ \E s \in CallIds : ChildStash(s)
  \/ \E s \in CallIds : DeferSettle(s)
  \/ \E s \in CallIds : Remove(s)

SpecPm2 == InitPm2 /\ [][NextPm2]_vars

\* The first request, and no other.
OneRun(a, runner) ==
  /\ calls = <<>>
  /\ CallRunOn(a, runner)

\* One run of primes under the pm2 runner, the supervisor answering the
\* poll loop in every way it can.
NextPoll ==
  \/ OneRun("primes", "pm2")
  \/ \E i \in CallIds : RunAttach(i)
  \/ \E s \in CallIds : RunStart(s)
  \/ \E s \in CallIds : Pm2Steps(s, Describes(s) \cup {Gone})
  \/ \E k \in Keys : ProcVanish(k)
  \/ \E s \in CallIds : ChildStash(s)
  \/ \E s \in CallIds : DeferSettle(s)
  \/ \E s \in CallIds : Remove(s)

SpecPoll == InitPm2 /\ [][NextPoll]_vars

\* The logs the post-mortem is tried on: up to MaxLogLines lines of any kind
\* around the first run, followed by up to five lines of noise, which push
\* them towards and out of the last five.
Heads ==
  UNION {[1..n -> LogLines(PidOf(1), procName(getKey("primes", NoSettings)))] :
           n \in 0..MaxLogLines}
Logs == {h \o Repeat(Noise, k) : h \in Heads, k \in 0..TailLines}

\* The files fileHandle.read gives the content of: one of logFileTailSize
\* bytes or more, and a shorter one under a runtime that reads a negative
\* position from the current one.
FilesRead == {"readable", "short"}

\* logFileScan as it defaults, nothing cached, and any of the logs in a file
\* of either length.
InitPostMortem ==
  /\ cache = [k \in AllKeys |-> Absent]
  /\ running = [k \in Keys |-> 0]
  /\ sessions = [i \in CallIds |-> NoSession]
  /\ chain = [i \in CallIds |-> NoChain]
  /\ calls = <<>>
  /\ kq = NoQuery
  /\ life = LifeReady
  /\ pm \in {[PmIdle EXCEPT !.log = l, !.file = f] : l \in Logs, f \in FilesRead}

\* One run of primes under the pm2 runner whose child is seen online, then
\* stopped with exit code 0, so that the log decides.
NextPostMortem ==
  \/ OneRun("primes", "pm2")
  \/ \E i \in CallIds : RunAttach(i)
  \/ \E s \in CallIds : RunStart(s)
  \/ \E s \in CallIds : Pm2Connect(s)
  \/ \E s \in CallIds : Pm2Describe(s)
  \/ \E s \in CallIds : Pm2Start(s)
  \/ \E s \in CallIds :
       \E d \in {Proc("online", PidOf(s), NoExit), Proc("stopped", 0, 0)} : Pm2Poll(s, d)
  \/ \E s \in CallIds : Pm2Scan(s)
  \/ \E s \in CallIds : Pm2ReadValue(s)
  \/ \E s \in CallIds : Pm2Clean(s)
  \/ \E s \in CallIds : Pm2Resolve(s)
  \/ \E s \in CallIds : DeferSettle(s)
  \/ \E s \in CallIds : Remove(s)

SpecPostMortem == InitPostMortem /\ [][NextPostMortem]_vars

(* --------------------- a log that cannot be read ----------------------- *)

\* The promise chain of the post-mortem rejects and nothing catches it:
\* fs.promises.open rejects for a file that is missing or unreadable, and
\* fileHandle.read rejects the position stats.size - logFileTailSize when it
\* is negative and the runtime takes no negative position. next is never
\* called, and the chain of exec stays at the poll step.
Pm2ScanUnhandled(s) ==
  /\ Pm2At(s, "scan")
  /\ pm.file \in {"missing", "short"}
  /\ pm' = [pm EXCEPT !.exec[s].pc = "unhandled"]
  /\ UNCHANGED <<core, kq, life>>

\* What the file at logFilePath can be.
LogFiles == {"readable", "short", "missing"}

\* logFileScan as it defaults, nothing cached, any log file with up to
\* MaxLogLines lines.
InitLog ==
  /\ cache = [k \in AllKeys |-> Absent]
  /\ running = [k \in Keys |-> 0]
  /\ sessions = [i \in CallIds |-> NoSession]
  /\ chain = [i \in CallIds |-> NoChain]
  /\ calls = <<>>
  /\ kq = NoQuery
  /\ life = LifeReady
  /\ pm \in {[PmIdle EXCEPT !.log = l, !.file = f] : l \in Heads, f \in LogFiles}

\* One run of primes under the pm2 runner whose child is seen online, then
\* stopped with exit code 0, over any log file.
NextLog ==
  \/ NextPostMortem
  \/ \E s \in CallIds : Pm2ScanUnhandled(s)

\* Every callback that is due is run: the steps of exec after the poll loop
\* and the continuations of run.
FairLog ==
  \A s \in CallIds :
    /\ WF_vars(Pm2Scan(s) \/ Pm2ScanUnhandled(s))
    /\ WF_vars(Pm2ReadValue(s))
    /\ WF_vars(Pm2Clean(s))
    /\ WF_vars(Pm2Resolve(s))
    /\ WF_vars(DeferSettle(s))
    /\ WF_vars(Remove(s))

SpecLog == InitLog /\ [][NextLog]_vars /\ FairLog

(* --------------------------- session creation -------------------------- *)

\* An id that no agent is registered under.
NoSuchAgent == "ghost"

\* A selection that asks the calculate hook first and the caller second.
SelectedHookFirst(given, calculated) == IF calculated # "" THEN calculated ELSE given

\* settings.runner || agents.settings.runner.calculate(session), and the same
\* for the cache.
Selected(given, calculated) == IF given # "" THEN given ELSE calculated

\* A createSession that determines and validates the cache before the runner.
CreateErrorCacheFirst(id, sel) ==
  IF id \notin AgentIds THEN "Agent is invalid"
  ELSE IF Selected(sel.cache, sel.cacheCalc) = "" THEN "Unable to determine agent cache"
  ELSE IF Selected(sel.cache, sel.cacheCalc) \notin CacheModules THEN "Invalid agent cache"
  ELSE IF Selected(sel.runner, sel.runnerCalc) = "" THEN "Unable to determine agent runner"
  ELSE IF Selected(sel.runner, sel.runnerCalc) \notin RunnerModules
    THEN "Invalid agent runner"
  ELSE ""

\* agents.createSession: the error its chain of checks throws, "" when every
\* check passes and the session is made.
CreateError(id, sel) ==
  IF id \notin AgentIds THEN "Agent is invalid"
  ELSE IF Selected(sel.runner, sel.runnerCalc) = "" THEN "Unable to determine agent runner"
  ELSE IF Selected(sel.runner, sel.runnerCalc) \notin RunnerModules
    THEN "Invalid agent runner"
  ELSE IF Selected(sel.cache, sel.cacheCalc) = "" THEN "Unable to determine agent cache"
  ELSE IF Selected(sel.cache, sel.cacheCalc) \notin CacheModules THEN "Invalid agent cache"
  ELSE ""

\* What callers give and what the hooks answer: runner and cache names that
\* are registered ("inline"; "filesystem", "memory"), names that are not
\* ("aws", "redis") and nothing at all.
Sel(r, c, rCalc, cCalc) ==
  [DefaultSel EXCEPT !.runner = r, !.cache = c, !.runnerCalc = rCalc, !.cacheCalc = cCalc]
Sels ==
  { DefaultSel,
    Sel("inline", "", "aws", CacheCalculate),
    Sel("aws", "", RunnerCalculate, CacheCalculate),
    Sel("", "", "", CacheCalculate),
    Sel("", "memory", RunnerCalculate, "redis"),
    Sel("", "redis", RunnerCalculate, CacheCalculate),
    Sel("", "", RunnerCalculate, ""),
    Sel("aws", "redis", RunnerCalculate, CacheCalculate),
    Sel("", "", "", "") }

\* agents.run(id, {}, {runner, cache}): createSession rejects, and run with
\* it, or makes the session run goes on with.
CallRunGiven(id, sel) ==
  LET n == Len(calls) + 1
      c == [NewCall("run", id, "promise", FALSE, n, "attach") EXCEPT !.sel = sel]
      err == CreateError(id, sel)
  IN
    /\ Budget
    /\ IF err # ""
         THEN /\ calls' = Append(calls, [c EXCEPT !.pc = "done",
                                                    !.ret = [st |-> "rejected", val |-> err]])
              /\ UNCHANGED sessions
         ELSE /\ calls' = Append(calls, c)
              /\ sessions' = [sessions EXCEPT ![n] =
                   [createSession(id) EXCEPT
                      !.runner = Selected(sel.runner, sel.runnerCalc),
                      !.cache = Selected(sel.cache, sel.cacheCalc)]]
    /\ UNCHANGED <<cache, running, chain>>
    /\ UNCHANGED other

\* Runs of primes and of an unknown agent, with and without overrides.
NextCreate ==
  \/ \E id \in {"primes", NoSuchAgent}, sel \in Sels : CallRunGiven(id, sel)
  \/ \E i \in CallIds : RunAttach(i)
  \/ \E s \in CallIds : RunStart(s)
  \/ \E s \in CallIds, v \in {VArr} : WorkerFinish(s, v)
  \/ \E s \in CallIds : CacheSet(s)
  \/ \E s \in CallIds : DeferSettle(s)
  \/ \E s \in CallIds : Remove(s)

SpecCreate == Init /\ [][NextCreate]_vars

(* ------------------------- progress reporting -------------------------- *)

\* What app.caches[...] throws: no `app` is defined in the module.
AppUndefined == "app is not defined"

\* context.progressCacheUpdate, called as this.progressCacheUpdate() with the
\* context as `this`: if (!this.cache) return; else app.caches[this.cache]
\* is evaluated, which throws. What it throws (nothing: Undefined); it
\* writes to no cache either way.
progressCacheUpdate(s) ==
  IF sessions[s].context.cache = "" THEN Undefined ELSE AppUndefined

\* The worker calls this.progress(current, max): the markers of the context
\* are updated and progressCacheUpdate is called (the first call of a
\* throttled function runs at once). What it throws comes out of the
\* worker, and the inline runner rejects with its message.
WorkerProgress(s) ==
  /\ ChainAt(s, "working")
  /\ sessions[s].runner = "inline"
  /\ sessions[s].context.progressCurrent < MaxProgress
  /\ sessions' = [sessions EXCEPT ![s].context.progressCurrent = @ + 1,
                                  ![s].context.progressMax = MaxProgress]
  /\ chain' = IF progressCacheUpdate(s) = Undefined THEN chain
              ELSE [chain EXCEPT ![s].pc = "execDone", ![s].ok = FALSE,
                                 ![s].out = progressCacheUpdate(s)]
  /\ UNCHANGED <<cache, running, calls>>
  /\ UNCHANGED other

\* Runs of primes whose worker reports progress, and callers that follow a
\* run through getSession.
NextProgress ==
  \/ \E w \in {"promise", "session"} : CallRun("primes", w)
  \/ \E j \in CallIds : CallGetSession(j)
  \/ \E i \in CallIds : RunAttach(i)
  \/ \E i \in CallIds : GetSessionRead(i)
  \/ \E i \in CallIds : GetSessionInfer(i)
  \/ \E s \in CallIds : RunStart(s)
  \/ \E s \in CallIds : WorkerProgress(s)
  \/ \E s \in CallIds, v \in {VArr} : WorkerFinish(s, v)
  \/ \E s \in CallIds : CacheSet(s)
  \/ \E s \in CallIds : DeferSettle(s)
  \/ \E s \in CallIds : Remove(s)

SpecProgress == InitOrder /\ [][NextProgress]_vars

(* --------------------------- concurrent gets --------------------------- *)

\* The orchestrator over a cache that holds nothing.
InitEmpty ==
  /\ cache = [k \in AllKeys |-> Absent]
  /\ running = [k \in Keys |-> 0]
  /\ sessions = [i \in CallIds |-> NoSession]
  /\ chain = [i \in CallIds |-> NoChain]
  /\ calls = <<>>
  /\ kq = NoQuery
  /\ pm = PmIdle
  /\ life = LifeReady

\* agents.get(id) issued while no earlier request has had its answer.
CallGetConcurrent(a) ==
  /\ \A i \in 1..Len(calls) : ~Settled(i)
  /\ CallGet(a, FALSE)

\* Concurrent non-lazy gets of primes and timed1, no invalidate, no expiry.
NextGets ==
  \/ \E a \in {"primes", "timed1"} : CallGetConcurrent(a)
  \/ \E i \in CallIds : GetProbe(i)
  \/ \E i \in CallIds : RunAttach(i)
  \/ \E s \in CallIds : RunStart(s)
  \/ \E s \in CallIds, v \in {VArr} : WorkerFinish(s, v)
  \/ \E s \in CallIds : CacheSet(s)
  \/ \E s \in CallIds : DeferSettle(s)
  \/ \E s \in CallIds : Remove(s)

SpecGets == InitEmpty /\ [][NextGets]_vars

(* ------------------------ running a session again --------------------- *)

\* agents.run(session), the session object being the one an earlier run
\* returned and whose defer has settled: _.isObject(id) ? id : ...
CallRunSession(j) ==
  /\ j \in 1..Len(calls)
  /\ calls[j].op = "run"
  /\ calls[j].ret.val = SessionRef
  /\ sessions[calls[j].sess].defer.st \in {"resolved", "rejected"}
  /\ Issue(NewCall("run", calls[j].agent, "promise", FALSE, calls[j].sess, "attach"))

\* Runs of primes that return the session, and runs of such a session.
NextReuse ==
  \/ CallRun("primes", "session")
  \/ \E j \in CallIds : CallRunSession(j)
  \/ \E i \in CallIds : RunAttach(i)
  \/ \E s \in CallIds : RunStart(s)
  \/ \E s \in CallIds : WorkerFail(s)
  \/ \E s \in CallIds, v \in {VArr, VStr} : WorkerFinish(s, v)
  \/ \E s \in CallIds : CacheSet(s)
  \/ \E s \in CallIds : DeferSettle(s)
  \/ \E s \in CallIds : Remove(s)

SpecReuse == Init /\ [][NextReuse]_vars

(* --------------------- requests after a finished run ------------------ *)

\* agents.run(id) issued after the defer of a session of the same key has
\* settled, from a reaction to the settling at the earliest.
CallRunAfter(a) ==
  /\ \E s \in CallIds :
       /\ sessions[s].key = getKey(a, NoSettings)
       /\ sessions[s].defer.st \in {"resolved", "rejected"}
  /\ CallRun(a, "promise")

\* After the immediate run of eager has finished: runs of eager by id.
NextAgain ==
  \/ CallRunAfter("eager")
  \/ \E i \in CallIds : RunAttach(i)
  \/ \E s \in CallIds : RunStart(s)
  \/ \E s \in CallIds : WorkerFail(s)
  \/ \E s \in CallIds, v \in {VArr} : WorkerFinish(s, v)
  \/ \E s \in CallIds : CacheSet(s)
  \/ \E s \in CallIds : DeferSettle(s)
  \/ \E s \in CallIds : Remove(s)

SpecAgain == InitImmediate /\ [][NextAgain]_vars

(* ------------------------- an unknown opts.want ------------------------ *)

\* Runs of primes and of pmonly (whose runner is refused) that ask for a
\* promise or for something run does not know.
NextWant ==
  \/ \E a \in Served, w \in {"promise", "value"} : CallRun(a, w)
  \/ \E i \in CallIds : RunAttach(i)
  \/ \E s \in CallIds : RunStart(s)
  \/ \E s \in CallIds : WorkerFail(s)
  \/ \E s \in CallIds, v \in {VArr} : WorkerFinish(s, v)
  \/ \E s \in CallIds : CacheSet(s)
  \/ \E s \in CallIds : DeferSettle(s)
  \/ \E s \in CallIds : Remove(s)

SpecWant == Init /\ [][NextWant]_vars

(* ------------------------ keys of different requests ------------------- *)

\* cacheKey: settings.cacheKey || agents.getKey(id, agentSettings)
SessionKey(id, sel) ==
  IF sel.cacheKey # "" THEN sel.cacheKey ELSE getKey(id, NoSettings)

\* agents.run / agents.get of (id, {}) with settings {cacheKey}, "" for none.
CallKeyed(op, a, k) ==
  LET n == Len(calls) + 1
      sel == [DefaultSel EXCEPT !.cacheKey = k]
      c == [NewCall(op, a, "promise", FALSE, n, IF op = "get" THEN "probe" ELSE "attach")
              EXCEPT !.sel = sel]
  IN
    /\ kq = NoQuery
    /\ Budget
    /\ calls' = Append(calls, c)
    /\ sessions' = [sessions EXCEPT ![n] =
                      [createSession(a) EXCEPT !.key = SessionKey(a, sel)]]
    /\ UNCHANGED <<cache, running, chain>>
    /\ UNCHANGED other

\* The agents whose requests meet, the ids keys are derived for (an agent
\* file may give any string as its id, the progress key of another agent
\* among them), and the settings whose keys are compared.
FrameAgents == {"primes", "timed1"}
FrameIds == FrameAgents \cup {ProgressKey("primes")}
PairSettings ==
  { NoSettings,
    Obj(<< [k |-> <<"a">>, v |-> Atom("1")] >>),
    Obj(<< [k |-> <<"a">>, v |-> Atom("2")] >>),
    Obj(<< [k |-> <<"b">>, v |-> Atom("1")] >>),
    Obj(<< [k |-> <<"a">>, v |-> Atom("1")], [k |-> <<"b">>, v |-> Atom("1")] >>),
    Obj(<< [k |-> <<"b">>, v |-> Atom("1")], [k |-> <<"a">>, v |-> Atom("1")] >>),
    Obj(<< [k |-> HintKey, v |-> Atom("1")] >>),
    Obj(<< [k |-> <<"a">>, v |-> Atom("1")], [k |-> HintKey, v |-> Atom("2")] >>),
    Obj(<< [k |-> <<"a">>, v |-> Obj(<< [k |-> <<"b">>, v |-> Atom("1")] >>)] >>) }

\* agents.getKey applied to two requests, (id, given) and (id2, variant).
DerivedPair(id, given, id2, variant) ==
  [id |-> id, id2 |-> id2, given |-> given, variant |-> variant,
   givenKey |-> getKey(id, given), variantKey |-> getKey(id2, variant)]

\* Before any request: the keys of two requests are derived.
DerivePair(id, given, id2, variant) ==
  /\ calls = <<>>
  /\ kq = NoQuery
  /\ kq' = DerivedPair(id, given, id2, variant)
  /\ UNCHANGED <<core, life, pm>>

\* Both agents have left a progress record; primes may have left a result.
InitFrame ==
  /\ cache \in {[k \in AllKeys |->
                   IF k = "primes" THEN e
                   ELSE IF k \in {ProgressKey(getKey(a, NoSettings)) : a \in FrameAgents}
                     THEN StaleProgress
                   ELSE Absent] : e \in Persisted}
  /\ running = [k \in Keys |-> 0]
  /\ sessions = [i \in CallIds |-> NoSession]
  /\ chain = [i \in CallIds |-> NoChain]
  /\ calls = <<>>
  /\ kq = NoQuery
  /\ pm = PmIdle
  /\ life = LifeReady

\* Runs and gets of the two agents, with and without a forced cacheKey.
NextFrame ==
  \/ \E id, id2 \in FrameIds, given, variant \in PairSettings :
       DerivePair(id, given, id2, variant)
  \/ \E op \in {"run", "get"}, a \in FrameAgents,
        k \in {""} \cup {getKey(b, NoSettings) : b \in FrameAgents} : CallKeyed(op, a, k)
  \/ \E i \in CallIds : GetProbe(i)
  \/ \E i \in CallIds : RunAttach(i)
  \/ \E s \in CallIds : RunStart(s)
  \/ \E s \in CallIds, v \in {VArr} : WorkerFinish(s, v)
  \/ \E s \in CallIds : CacheSet(s)
  \/ \E s \in CallIds : DeferSettle(s)
  \/ \E s \in CallIds : Remove(s)

SpecFrame == InitFrame /\ [][NextFrame]_vars

(* --------------------------- specification ----------------------------- *)

Wants == {"promise", "session"}

Next ==
  \/ \E a \in Served, w \in Wants : CallRun(a, w)
  \/ \E a \in Served, lazy \in BOOLEAN : CallGet(a, lazy)
  \/ \E a \in Served : CallInvalidate(a)
  \/ \E j \in CallIds : CallGetSession(j)
  \/ \E i \in CallIds : GetProbe(i)
  \/ \E i \in CallIds : RunAttach(i)
  \/ \E i \in CallIds : InvalidateUnset(i)
  \/ \E i \in CallIds : GetSessionRead(i)
  \/ \E i \in CallIds : GetSessionInfer(i)
  \/ \E s \in CallIds : RunStart(s)
  \/ \E s \in CallIds : WorkerFail(s)
  \/ \E s \in CallIds, v \in Values : WorkerFinish(s, v)
  \/ \E s \in CallIds : CacheSet(s)
  \/ \E s \in CallIds : DeferSettle(s)
  \/ \E s \in CallIds : Remove(s)
  \/ \E k \in Keys : Expire(k)

Spec == Init /\ [][Next]_vars

\* The orchestrator after init() has launched the immediate agent, serving
\* get and invalidate requests.
NextImmediate ==
  \/ \E a \in ServedImmediate, lazy \in BOOLEAN : CallGet(a, lazy)
  \/ \E a \in ServedImmediate : CallInvalidate(a)
  \/ \E i \in CallIds : GetProbe(i)
  \/ \E i \in CallIds : RunAttach(i)
  \/ \E i \in CallIds : InvalidateUnset(i)
  \/ \E s \in CallIds : RunStart(s)
  \/ \E s \in CallIds : WorkerFail(s)
  \/ \E s \in CallIds, v \in Values : WorkerFinish(s, v)
  \/ \E s \in CallIds : CacheSet(s)
  \/ \E s \in CallIds : DeferSettle(s)
  \/ \E s \in CallIds : Remove(s)
  \/ \E k \in Keys : Expire(k)

SpecImmediate == InitImmediate /\ [][NextImmediate]_vars

\* The inline runner at work for agents of its three kinds, with callers
\* that run them, probe lazily and ask for sizes.
NextInline ==
  \/ \E a \in InlineAgents : CallRun(a, "promise")
  \/ \E a \in InlineAgents : CallGet(a, TRUE)
  \/ \E a \in InlineAgents : CallGetSize(a)
  \/ \E i \in CallIds : GetProbe(i)
  \/ \E i \in CallIds : RunAttach(i)
  \/ \E s \in CallIds : RunStart(s)
  \/ \E s \in CallIds : WorkerFail(s)
  \/ \E s \in CallIds, v \in {VArr, VZero} : WorkerFinish(s, v)
  \/ \E s \in CallIds : CacheSet(s)
  \/ \E s \in CallIds : DeferSettle(s)
  \/ \E s \in CallIds : Remove(s)
  \/ \E k \in Keys : Expire(k)

SpecInline == Init /\ [][NextInline]_vars

(* ------------------------- failing cache backend ----------------------- *)

\* The cause a cache backend rejects an operation with.
CacheErr == "cacheError"

\* The unset of the progress record rejects: the chain skips exec and goes
\* to .catch(session.defer.reject).
ProgressUnsetFail(s) ==
  /\ ChainAt(s, "emitted")
  /\ chain' = [chain EXCEPT ![s].pc = "execDone", ![s].out = CacheErr, ![s].ok = FALSE]
  /\ UNCHANGED <<cache, running, sessions, calls>>
  /\ UNCHANGED other

\* The stash write rejects: session.cacher.set(...).then(...) has no
\* rejection handler and nothing else calls resolve or reject, so the promise
\* of exec stays pending and the chain of run never goes on.
CacheSetFail(s) ==
  /\ ChainAt(s, "writing")
  /\ chain' = [chain EXCEPT ![s].pc = "stuck"]
  /\ UNCHANGED <<cache, running, sessions, calls>>
  /\ UNCHANGED other

\* Runs and gets of primes over a cache backend whose operations can fail.
NextCacheFail ==
  \/ \E a \in {"primes"} : CallRun(a, "promise")
  \/ \E a \in {"primes"} : CallGet(a, FALSE)
  \/ \E i \in CallIds : GetProbe(i)
  \/ \E i \in CallIds : RunAttach(i)
  \/ \E s \in CallIds : RunStart(s)
  \/ \E s \in CallIds : ProgressUnsetFail(s)
  \/ \E s \in CallIds : WorkerFail(s)
  \/ \E s \in CallIds, v \in {VArr} : WorkerFinish(s, v)
  \/ \E s \in CallIds : CacheSet(s)
  \/ \E s \in CallIds : CacheSetFail(s)
  \/ \E s \in CallIds : DeferSettle(s)
  \/ \E s \in CallIds : Remove(s)

\* The event loop runs every continuation that is ready: a fired timer, a
\* completed cache operation, a settled promise's handlers. Nothing makes a
\* worker finish.
LoopFairness ==
  \A s \in CallIds :
    /\ WF_vars(RunStart(s) \/ ProgressUnsetFail(s))
    /\ WF_vars(CacheSet(s) \/ CacheSetFail(s))
    /\ WF_vars(DeferSettle(s))
    /\ WF_vars(Remove(s))

SpecCacheFail == Init /\ [][NextCacheFail]_vars /\ LoopFairness

(* ------------------------------ properties ----------------------------- *)

Issued == 1..Len(calls)
KeyOf(i) == sessions[calls[i].sess].key
HasReturn(s) == Registry[sessions[s].agent].hasReturn

\* C1: for every cacheKey at most one execution is queued or under way, and
\* it is the execution of the session registered in _running under that key:
\* no second execution starts while a session is registered and unsettled.
C1_OneExecutionPerKey ==
  /\ \A k \in Keys :
       Cardinality({s \in CallIds : InFlight(s) /\ sessions[s].key = k}) <= 1
  /\ \A s \in CallIds : InFlight(s) => running[sessions[s].key] = s

\* C1 witness: a second request for the key arrived while the worker of the
\* registered session was running, and was attached to it.
C1_Witness ==
  \E i \in Issued :
    /\ calls[i].pc = "await"
    /\ calls[i].awaiting # calls[i].sess
    /\ chain[calls[i].awaiting].pc = "working"
    /\ chain[calls[i].sess].pc = "none"

\* C2: concurrent run calls on one key share one execution: callers waiting
\* on an unsettled defer of the same key wait on the same session, the worker
\* of the session they were attached to is invoked once its defer settles (and
\* the worker of their own session never is), and every caller attached to a
\* session observes that session's one outcome, value or error.
C2_Coalescing ==
  /\ \A i, j \in Issued :
       ( /\ calls[i].pc = "await" /\ calls[j].pc = "await"
         /\ KeyOf(i) = KeyOf(j)
         /\ ~Settled(i) /\ ~Settled(j) )
       => calls[i].awaiting = calls[j].awaiting
  /\ \A i \in Issued :
       calls[i].pc = "await" =>
         /\ Settled(i) => Invoked(calls[i].awaiting)
         /\ calls[i].awaiting # calls[i].sess => chain[calls[i].sess].pc = "none"
  /\ \A i, j \in Issued :
       ( /\ calls[i].pc = "await" /\ calls[j].pc = "await"
         /\ calls[i].awaiting = calls[j].awaiting
         /\ Settled(i) )
       => /\ Ret(i) = Ret(j)
          /\ Ret(i).st = (IF chain[calls[i].awaiting].ok THEN "resolved" ELSE "rejected")
          /\ Ret(i).val = chain[calls[i].awaiting].out

\* C2 witness: two callers were attached to one session and both got its value.
C2_Witness ==
  \E i, j \in Issued :
    /\ i # j
    /\ calls[i].pc = "await" /\ calls[j].pc = "await"
    /\ calls[i].awaiting = calls[j].awaiting
    /\ Ret(i).st = "resolved" /\ Ret(j).st = "resolved"
    /\ Ret(i).val \in Values

\* C3: when a caller has observed the successful resolution of a run of an
\* agent with hasReturn, the stash write of that run has completed, and
\* unless the entry was removed or replaced since (invalidate, expiry, a
\* later run) a cache read of the key returns the value the caller got.
C3_WriteBeforeResolve ==
  \A i \in Issued :
    ( /\ calls[i].pc = "await"
      /\ Ret(i).st = "resolved"
      /\ HasReturn(calls[i].awaiting) )
    => /\ chain[calls[i].awaiting].wrote
       /\ cache[KeyOf(i)].by = calls[i].awaiting => cache[KeyOf(i)].val = Ret(i).val

\* C3 witness: a caller has its value and the cache still holds that run's entry.
C3_Witness ==
  \E i \in Issued :
    /\ calls[i].pc = "await"
    /\ Ret(i).st = "resolved"
    /\ cache[KeyOf(i)].by = calls[i].awaiting
    /\ cache[KeyOf(i)].val = Ret(i).val

\* C4 (as claimed): once a run has resolved with a value v and its entry is
\* still in the cache, the probe of a get returns v and get does not go on
\* to run, for every v the worker can produce.
C4_GetReturnsCachedValue ==
  [][\A i \in Issued :
       LET e == cache[KeyOf(i)] IN
         ( /\ calls[i].op = "get"
           /\ calls[i].pc = "probe" /\ calls'[i].pc # "probe"
           /\ e.by # 0
           /\ sessions[e.by].defer = [st |-> "resolved", val |-> e.val] )
         => /\ calls'[i].pc = "done"
            /\ calls'[i].ret = [st |-> "resolved", val |-> e.val]]_vars

\* The step in which request i leaves position pc.
Leaves(i, pc) == calls[i].pc = pc /\ calls'[i].pc # pc

\* C5 (as claimed): after invalidate has resolved, a non-lazy get of the key
\* (with a runner the agent supports) whose probe found nothing starts a new
\* execution of its own session.
C5_GetAfterInvalidateRuns ==
  [][\A j \in Issued :
       ( /\ calls[j].op = "get" /\ ~calls[j].lazy
         /\ Leaves(j, "attach")
         /\ calls[j].inv
         /\ ~Incompatible(calls[j].agent, sessions[calls[j].sess].runner) )
       => /\ running'[KeyOf(j)] = calls[j].sess
          /\ chain'[calls[j].sess].pc = "queued"]_vars

\* C5 (amended): the unset of invalidate leaves no value under the key; a
\* non-lazy get whose probe finds no value goes on to run, and there it
\* starts a new execution of its own session when no session is registered
\* under the key and the runner is supported, is attached to the registered
\* session (starting nothing) when there is one, and starts nothing when
\* the runner is not supported.
C5_InvalidateThenGet ==
  [][/\ \A i \in Issued :
          (calls[i].op = "invalidate" /\ Leaves(i, "unset"))
          => cache'[KeyOf(i)] = Absent
     /\ \A j \in Issued :
          ( /\ calls[j].op = "get" /\ ~calls[j].lazy
            /\ Leaves(j, "probe")
            /\ cache[KeyOf(j)] = Absent )
          => calls'[j].pc = "attach"
     /\ \A j \in Issued :
          (calls[j].op = "get" /\ Leaves(j, "attach"))
          => IF running[KeyOf(j)] # 0
               THEN /\ calls'[j].awaiting = running[KeyOf(j)]
                    /\ running' = running /\ chain' = chain
             ELSE IF Incompatible(calls[j].agent, sessions[calls[j].sess].runner)
               THEN running' = running /\ chain' = chain
             ELSE /\ running'[KeyOf(j)] = calls[j].sess
                  /\ chain'[calls[j].sess].pc = "queued"
                  /\ calls'[j].awaiting = calls[j].sess]_vars

\* C5 witness: a get issued after invalidate had resolved started an
\* execution of its own, whose worker has been invoked, and has its value.
C5_Witness ==
  \E j \in Issued :
    /\ calls[j].op = "get" /\ calls[j].inv
    /\ calls[j].awaiting = calls[j].sess
    /\ Invoked(calls[j].sess)
    /\ Ret(j).st = "resolved"

\* The execution of session s has not reached the end of its stash write.
WriteAhead(s) == chain[s].pc \in {"queued", "emitted", "cleared", "working", "writing"}

\* C6 (as claimed): an invalidate whose unset runs while a run of the key is
\* in flight removes the cached value, leaves the run and its registration
\* as they are, and when that run succeeds its stash write comes after the
\* unset, so that its success leaves a value under the key; every stash
\* write stores the worker's value under the key.
C6_InvalidateInFlightRepopulates ==
  [][/\ \A i \in Issued :
          ( /\ calls[i].op = "invalidate" /\ Leaves(i, "unset")
            /\ running[KeyOf(i)] # 0 /\ InFlight(running[KeyOf(i)]) )
          => /\ cache'[KeyOf(i)].val = Undefined
             /\ running' = running /\ chain' = chain /\ sessions' = sessions
             /\ chain[running[KeyOf(i)]].ok => WriteAhead(running[KeyOf(i)])
     /\ \A s \in CallIds :
          (chain[s].pc = "writing" /\ chain'[s].pc # "writing")
          => /\ cache'[sessions[s].key].val = chain[s].out
             /\ cache'[sessions[s].key].val # Undefined
             /\ cache'[sessions[s].key].by = s]_vars

\* C6 (amended): an invalidate whose unset runs while a run of the key is in
\* flight removes the cached value and leaves the run and its registration
\* as they are. Every stash write stores the worker's value under the key,
\* and a run writes only in its one stash step: when the unset ran before
\* that step the run's success repopulates the cache, and when it ran after
\* it (the run being still registered) the value the run stored is gone
\* and the run does not store it again.
C6_InvalidateInFlight ==
  [][/\ \A i \in Issued :
          ( /\ calls[i].op = "invalidate" /\ Leaves(i, "unset")
            /\ running[KeyOf(i)] # 0 /\ InFlight(running[KeyOf(i)]) )
          => /\ cache'[KeyOf(i)].val = Undefined
             /\ running' = running /\ chain' = chain /\ sessions' = sessions
     /\ \A s \in CallIds :
          (chain[s].pc = "writing" /\ chain'[s].pc # "writing")
          => /\ cache'[sessions[s].key].val = chain[s].out
             /\ cache'[sessions[s].key].val # Undefined
             /\ cache'[sessions[s].key].by = s
     /\ \A s \in CallIds :
          (sessions[s].key # "" /\ cache'[sessions[s].key] # cache[sessions[s].key]
             /\ cache'[sessions[s].key].by = s)
          => chain[s].pc = "writing"]_vars

\* C6 witness: the unset of an invalidate ran while a run of the key was
\* registered; that run has since succeeded and its value is in the cache.
C6_Witness ==
  \E i \in Issued :
    /\ calls[i].op = "invalidate" /\ calls[i].pc = "done"
    /\ calls[i].reg # 0
    /\ sessions[calls[i].reg].defer.st = "resolved"
    /\ cache[KeyOf(i)].by = calls[i].reg
    /\ cache[KeyOf(i)].val = sessions[calls[i].reg].defer.val

\* The runners the agent of session s lists.
Methods(s) ==
  {Registry[sessions[s].agent].methods[m] :
     m \in 1..Len(Registry[sessions[s].agent].methods)}

\* Session s exists and its runner is not among its agent's methods.
Unsupported(s) == sessions[s].agent # "" /\ sessions[s].runner \notin Methods(s)

\* C7: a request whose runner is not in the agent's methods never starts the
\* worker: its session is never registered in _running and no execution is
\* ever queued for it.
C7_IncompatibleNeverStarts ==
  \A s \in CallIds :
    Unsupported(s) =>
      /\ chain[s].pc = "none"
      /\ \A k \in Keys : running[k] # s

\* C7 witness: a run with an unsupported runner has returned.
C7_Witness ==
  \E i \in Issued :
    /\ calls[i].op = "run" /\ calls[i].pc = "done"
    /\ Unsupported(calls[i].sess)

\* C8 (as claimed): a run whose runner is not in the agent's methods fails:
\* in promise mode the returned promise is rejected, in session mode the
\* returned session has status 'error'.
C8_IncompatibleFails ==
  \A i \in Issued :
    ( /\ calls[i].op = "run" /\ calls[i].pc # "attach"
      /\ Unsupported(calls[i].sess) )
    => IF calls[i].want = "promise"
         THEN Ret(i).st = "rejected"
         ELSE /\ Ret(i) = [st |-> "resolved", val |-> SessionRef]
              /\ sessions[calls[i].sess].status = "error"

\* C9 (as claimed): a run with want 'session' and a supported runner returns
\* the session object with status 'pending' before the worker of the key is
\* invoked, also when a session of the key is already registered.
C9_SessionModeReturnsSession ==
  [][\A i \in Issued :
       ( /\ calls[i].op = "run" /\ calls[i].want = "session"
         /\ Leaves(i, "attach")
         /\ ~Unsupported(calls[i].sess) )
       => /\ calls'[i].pc = "done"
          /\ calls'[i].ret = [st |-> "resolved", val |-> SessionRef]
          /\ sessions'[calls[i].sess].status = "pending"]_vars

\* C10 (as claimed): when nothing is registered under the key and the value
\* read is present and is not an object whose only key is 'error',
\* getSession gives status 'complete' with that value as result.
C10_GetSessionComplete ==
  [][\A i \in Issued :
       LET k == KeyOf(i) IN
         ( /\ calls[i].op = "getSession" /\ Leaves(i, "infer")
           /\ running[k] = 0
           /\ calls[i].val # Undefined
           /\ ~IsErrorOnly(calls[i].val) )
         => /\ sessions'[calls[i].sess].status = "complete"
            /\ sessions'[calls[i].sess].result = calls[i].val]_vars

\* C11 (as claimed): a getSession on a session whose run has failed (its
\* defer was rejected and it has left the coalescer) gives status 'error'
\* and an error field holding the failure cause.
C11_GetSessionAfterFailure ==
  [][\A i \in Issued :
       LET s == calls[i].sess IN
         ( /\ calls[i].op = "getSession" /\ Leaves(i, "infer")
           /\ chain[s].pc = "removed"
           /\ sessions[s].defer.st = "rejected" )
         => /\ sessions'[s].status = "error"
            /\ sessions'[s].error = sessions[s].defer.val]_vars

\* C12: when getSession fills the session in while a session is registered
\* under the key, the status is 'pending', whatever value the cache read
\* returned (which becomes the result).
C12_GetSessionPending ==
  [][\A i \in Issued :
       ( /\ calls[i].op = "getSession" /\ Leaves(i, "infer")
         /\ running[KeyOf(i)] # 0 )
       => /\ sessions'[calls[i].sess].status = "pending"
          /\ sessions'[calls[i].sess].result = calls[i].val]_vars

\* C12 witness: getSession has answered 'pending' for a registered session
\* while the cache held a value an earlier run had left under the key.
C12_Witness ==
  \E i \in Issued :
    /\ calls[i].op = "getSession" /\ calls[i].pc = "done"
    /\ running[KeyOf(i)] = calls[i].sess
    /\ calls[i].val \in Values
    /\ sessions[calls[i].sess].status = "pending"
    /\ sessions[calls[i].sess].result = calls[i].val

\* Two settings values are deep-equal up to the order of object keys.
RECURSIVE SameUpToOrder(_, _)
SameUpToOrder(x, y) ==
  /\ x.t = y.t /\ x.a = y.a /\ Len(x.o) = Len(y.o)
  /\ IF x.t = "arr"
       THEN \A i \in 1..Len(x.o) : SameUpToOrder(x.o[i].v, y.o[i].v)
       ELSE \A i \in 1..Len(x.o) : \E j \in 1..Len(y.o) :
              x.o[i].k = y.o[j].k /\ SameUpToOrder(x.o[i].v, y.o[j].v)

WithoutDollar(v) ==
  [i \in 1..Cardinality({m \in 1..Len(v.o) : v.o[m].k[1] # "$"}) |->
     v.o[CHOOSE j \in 1..Len(v.o) :
           /\ v.o[j].k[1] # "$"
           /\ Cardinality({m \in 1..j : v.o[m].k[1] # "$"}) = i]]

\* C14: settings that differ only in '$'-prefixed keys derive the same key,
\* the key of the settings without them; settings with no other key derive
\* keyRewrite(id).
C14_DollarKeysIgnored ==
  /\ WithoutDollar(kq.given) = WithoutDollar(kq.variant)
       => kq.variantKey = kq.givenKey
  /\ kq.id # "" =>
       /\ kq.variantKey = getKey(kq.id, Obj(WithoutDollar(kq.variant)))
       /\ WithoutDollar(kq.variant) = <<>> => kq.variantKey = keyRewrite(kq.id)

\* C14 witness: the variant carries a '$' hint the settings given lack,
\* next to other keys, and both derive the same hashed key.
C14_Witness ==
  /\ \E i \in 1..Len(kq.variant.o) : kq.variant.o[i].k = HintKey
  /\ \A i \in 1..Len(kq.given.o) : kq.given.o[i].k # HintKey
  /\ kq.given.o # <<>>
  /\ kq.variantKey = kq.givenKey
  /\ kq.givenKey # kq.id

\* C20 (as claimed): when destroy() has resolved, every cache backend and
\* every runner exposing destroy has been destroyed, the scheduler is
\* stopped, and 'destroy' then 'destroyed' were emitted around these steps.
C20_DestroyTearsDown ==
  life.pc = "destroyed" =>
    /\ \A m \in CacheModules : life.caches[m] = "destroyed"
    /\ \A r \in RunnerModules : HasDestroy(r) => life.runners[r] = "destroyed"
    /\ life.scheduler = "paused"
    /\ life.events = <<"destroy", "destroyed">>

\* C15: a session's defer settles once: a settled defer never changes, a
\* pending defer is settled only by the one settling step of the session's
\* own execution and with that execution's outcome, and an execution past
\* that step has its defer settled. A request is attached only to the
\* session registered under its key and stays attached to it, so what it
\* observes is that one settlement.
C15_DeferSettledOnce ==
  [][\A s \in CallIds :
       /\ sessions[s].defer.st \in {"resolved", "rejected"}
            => sessions'[s].defer = sessions[s].defer
       /\ (sessions[s].defer.st = "pending" /\ sessions'[s].defer.st # "pending")
            => /\ chain[s].pc = "execDone" /\ chain'[s].pc = "settled"
               /\ sessions'[s].defer =
                    [st |-> IF chain[s].ok THEN "resolved" ELSE "rejected",
                     val |-> chain[s].out]
       /\ chain'[s].pc \in {"settled", "removed"}
            => sessions'[s].defer.st \in {"resolved", "rejected"}
       /\ \A i \in Issued :
            /\ (calls[i].pc = "await" /\ calls[i].awaiting = s)
                 => (calls'[i].pc = "await" /\ calls'[i].awaiting = s)
            /\ (Leaves(i, "attach") /\ calls'[i].pc = "await"
                   /\ calls'[i].awaiting = s)
                 => running'[KeyOf(i)] = s]_vars

\* C15 witness: a request attached to another request's session has
\* observed the rejection of that session, which has left the coalescer.
C15_Witness ==
  \E i \in Issued :
    /\ calls[i].pc = "await"
    /\ calls[i].awaiting # calls[i].sess
    /\ chain[calls[i].awaiting].pc = "removed"
    /\ Ret(i) = [st |-> "rejected", val |-> ErrCause]

\* C16: a failing run writes nothing under its key: the only step of an
\* execution that changes the entry under the session's cacheKey is its stash
\* write, an execution that failed never made one, and its defer is rejected
\* with the cause.
C16_FailureLeavesCache ==
  [][\A s \in CallIds :
       /\ (chain'[s] # chain[s] /\ chain[s].pc # "writing")
            => cache'[sessions'[s].key] = cache[sessions'[s].key]
       /\ (chain'[s].pc \in {"execDone", "settled", "removed"} /\ ~chain'[s].ok)
            => ~chain'[s].wrote
       /\ (chain[s].pc = "execDone" /\ chain'[s].pc = "settled" /\ ~chain[s].ok)
            => sessions'[s].defer = [st |-> "rejected", val |-> chain[s].out]]_vars

\* C16 witness: a run has been rejected and the value cached before it is
\* still under the key.
C16_Witness ==
  \E s \in CallIds :
    /\ chain[s].pc = "removed"
    /\ sessions[s].defer = [st |-> "rejected", val |-> ErrCause]
    /\ cache[sessions[s].key].val = VArr
    /\ cache[sessions[s].key].by = 0

\* The step in which the worker of session s hands over a value: the
\* execution leaves "working" and has not failed.
WorkerSucceeds(s) ==
  /\ chain[s].pc = "working" /\ chain'[s].pc # "working"
  /\ ~(chain'[s].pc = "execDone" /\ ~chain'[s].ok)

\* C17: on a successful inline run, with hasReturn the value is written
\* under the cacheKey before exec resolves, with an expiry when the agent has
\* a non-empty expires string and without one otherwise; without hasReturn
\* nothing is written and exec resolves with no value.
C17_WriteFollowsDefinition ==
  [][\A s \in CallIds :
       /\ (WorkerSucceeds(s) /\ HasReturn(s))
            => chain'[s].pc = "writing" /\ cache' = cache
       /\ (WorkerSucceeds(s) /\ ~HasReturn(s))
            => /\ chain'[s].pc = "execDone" /\ chain'[s].ok
               /\ chain'[s].out = Undefined
               /\ cache' = cache
       /\ (chain[s].pc = "writing" /\ chain'[s].pc # "writing")
            => /\ cache'[sessions[s].key] =
                    [val |-> chain[s].out,
                     exp |-> Registry[sessions[s].agent].expires # "",
                     by |-> s]
               /\ chain'[s].pc = "execDone" /\ chain'[s].ok
               /\ chain'[s].out = chain[s].out
       /\ (sessions[s].agent # "" /\ ~HasReturn(s))
            => /\ ~chain'[s].wrote
               /\ cache'[sessions[s].key].by # s]_vars

\* C17 witness: a run of the agent without expires has resolved with its
\* value stored without expiry, and a run of the agent without hasReturn has
\* resolved with no value and nothing under its key.
C17_Witness ==
  \E s, t \in CallIds :
    /\ sessions[s].agent = "timed1"
    /\ sessions[s].defer = [st |-> "resolved", val |-> VArr]
    /\ cache[sessions[s].key] = [val |-> VArr, exp |-> FALSE, by |-> s]
    /\ sessions[t].agent = "notify"
    /\ sessions[t].defer = [st |-> "resolved", val |-> Undefined]
    /\ cache[sessions[t].key] = Absent

\* C19: a get with lazy (getSize is one) never goes on to run: every step
\* of such a request leaves the cache, the coalescer and the executions as
\* they are, the request ends at its probe, and on a miss it returns undefined.
C19_LazyNeverRuns ==
  [][\A i \in 1..Len(calls') :
       ( /\ calls'[i].op = "get" /\ calls'[i].lazy
         /\ (i > Len(calls) \/ calls'[i] # calls[i]) )
       => /\ cache' = cache /\ running' = running /\ chain' = chain
          /\ calls'[i].pc \in {"probe", "done"}
          /\ calls'[i].awaiting = 0
          /\ ( /\ calls'[i].pc = "done"
                /\ cache[sessions'[calls'[i].sess].key].val = Undefined )
             => calls'[i].ret = [st |-> "resolved", val |-> Undefined]]_vars

\* C19 witness: a getSize and a lazy get have both returned undefined on a
\* miss, with nothing registered and no execution queued.
C19_Witness ==
  \E i, j \in Issued :
    /\ calls[i].op = "get" /\ calls[i].method = "size" /\ calls[i].pc = "done"
    /\ calls[j].op = "get" /\ calls[j].method = "get" /\ calls[j].lazy
    /\ calls[j].pc = "done"
    /\ calls[i].ret = [st |-> "resolved", val |-> Undefined]
    /\ calls[j].ret = [st |-> "resolved", val |-> Undefined]
    /\ \A k \in Keys : running[k] = 0
    /\ \A s \in CallIds : chain[s].pc = "none"

\* A cache operation of the execution of session s has failed.
CacheFailed(s) == chain[s].pc = "stuck" \/ chain[s].out = CacheErr

\* C18 (as claimed): once a cache operation of a run has failed (the unset
\* of the progress record or the stash write), the session's defer is
\* eventually rejected and the session removed from the coalescer.
C18_CacheFailureRejects ==
  \A s \in CallIds :
    CacheFailed(s) ~>
      (sessions[s].defer.st = "rejected" /\ \A k \in Keys : running[k] # s)

\* C21 (as claimed): once destroy() has resolved no new work is admitted: no
\* run or get issued afterwards gets a worker invoked for its session and no
\* periodic task fires; sessions in flight when destroy() was called are
\* not cancelled: they stay registered until they settle, and a resolved
\* one has its result written.
C21_DestroyAdmitsNoWork ==
  /\ \A i \in 1..Len(calls) : calls[i].dead => ~Invoked(i)
  /\ \A i \in 1..Len(calls) : calls[i].op = "tick" => ~calls[i].dead
  /\ \A s \in CallIds :
       (life.pc # "ready" /\ sessions[s].defer.st = "resolved" /\ HasReturn(s))
         => chain[s].wrote

\* C22: init() emits 'init' first and 'ready' last; 'ready' is emitted only
\* once every configured cache backend has finished initialising and the
\* periodic tasks are installed; once a backend's init has failed, 'ready'
\* is never emitted and init() does not resolve: it rejects.
C22_InitOrder ==
  /\ life.events # <<>> => life.events[1] = "init"
  /\ \A n \in 1..Len(life.events) :
       life.events[n] = "ready" =>
         /\ n = Len(life.events)
         /\ \A m \in CacheModules : life.caches[m] = "ready"
         /\ life.autoInstall => life.tasks = TimedAgents
  /\ (\E m \in CacheModules : life.caches[m] = "failed") =>
       /\ \A n \in 1..Len(life.events) : life.events[n] # "ready"
       /\ life.init # "resolved"
  /\ life.pc = "failed" => life.init = "rejected"
  /\ life.init = "resolved" => life.events[Len(life.events)] = "ready"

\* init() has resolved with the periodic task installed and 'ready' emitted.
C22_Witness ==
  /\ life.init = "resolved"
  /\ life.tasks # {}
  /\ life.events = <<"init", "refresh", "scheduled", "runImmediate", "ready">>

\* The firings of periodic tasks so far.
Firings == {i \in 1..Len(calls) : calls[i].op = "tick"}

CallerRuns(a) == {i \in 1..Len(calls) : calls[i].op = "run" /\ calls[i].agent = a}

\* C24: with autoInstall, once init() has resolved the result of a timed
\* agent that stores its result is eventually in the cache under the
\* agent's default key, whether or not a caller asks; without autoInstall
\* no periodic task is installed, none fires, and the cache holds no result
\* of the agent unless a caller has run it.
C24_CronFillsCache ==
  /\ \A a \in {b \in TimedAgents : Registry[b].hasReturn} :
       (life.init = "resolved" /\ life.autoInstall)
         ~> (cache[getKey(a, NoSettings)].val # Undefined)
  /\ [](~life.autoInstall =>
          /\ life.tasks = {}
          /\ life.ticks = 0
          /\ \A a \in TimedAgents :
               cache[getKey(a, NoSettings)].val # Undefined => CallerRuns(a) # {})

\* The result of timed1 is in the cache and no caller has asked for it.
C24_Witness ==
  /\ life.autoInstall
  /\ cache[getKey("timed1", NoSettings)].val # Undefined
  /\ CallerRuns("timed1") = {}
  /\ Firings # {}

\* The order in which the execution of a session advances.
StepOrder ==
  { <<"none", "queued">>, <<"queued", "emitted">>, <<"emitted", "cleared">>,
    <<"cleared", "working">>, <<"working", "writing">>, <<"working", "execDone">>,
    <<"writing", "execDone">>, <<"execDone", "settled">>, <<"settled", "removed">> }

\* C25: a run that starts a new execution registers the session in the step
\* in which it returns to the caller; later 'run' is emitted, then the
\* progress record is cleared, then the runner is invoked, with the progress
\* record absent at that moment; the defer is settled with the runner's
\* outcome; and only then is the session removed from the coalescer, in
\* which it stayed registered all along.
C25_RunStepOrder ==
  [][\A s \in CallIds :
      /\ chain'[s].pc # chain[s].pc => <<chain[s].pc, chain'[s].pc>> \in StepOrder
      /\ (chain[s].pc = "none" /\ chain'[s].pc = "queued") =>
           /\ running'[sessions[s].key] = s
           /\ \E i \in 1..Len(calls) :
                /\ calls[i].sess = s
                /\ calls[i].pc = "attach" /\ calls'[i].pc \in {"await", "done"}
      /\ chain[s].pc \in {"queued", "emitted", "cleared", "working", "writing",
                          "execDone", "settled"}
           => running[sessions[s].key] = s
      /\ (chain[s].pc = "cleared" /\ chain'[s].pc = "working") =>
           cache[ProgressKey(sessions[s].key)] = Absent
      /\ (chain[s].pc = "execDone" /\ chain'[s].pc = "settled") =>
           sessions'[s].defer =
             [st |-> IF chain[s].ok THEN "resolved" ELSE "rejected", val |-> chain[s].out]
      /\ (chain[s].pc = "settled" /\ chain'[s].pc = "removed") =>
           /\ sessions[s].defer.st # "pending"
           /\ running'[sessions[s].key] = 0
  ]_vars

\* An execution has gone through every step and left the coalescer.
C25_Witness ==
  \E s \in CallIds :
    /\ chain[s].pc = "removed"
    /\ sessions[s].defer.st = "resolved"
    /\ running[sessions[s].key] = 0

\* The answer shows the child stopping or stopped (or online with pid 0).
SeenStopped(d) ==
  d.listed /\ (d.status \in {"stopping", "stopped"} \/ (d.status = "online" /\ d.pid = 0))
\* The answer shows the child launching, or online with a pid.
SeenRunning(d) ==
  d.listed /\ (d.status = "launching" \/ (d.status = "online" /\ d.pid # 0))
\* The exit code the answer carries reads as 0.
SeenExitZero(d) == d.exit \in {0, NoExit}

\* The lines among the last five of the log that are kill events of the run
\* of child pid under process name: a kill of that pid or a signalled exit
\* of that name, not older than the start of the process, or a stop of pm2.
KillLines(log, pid, name) ==
  {n \in 1..Len(log) :
     /\ n > Len(log) - 5
     /\ \/ log[n].text = "pid" /\ log[n].pid = pid /\ log[n].date >= StartedAt
        \/ /\ log[n].text = "exited" /\ log[n].signal \in {"SIGTERM", "SIGKILL"}
           /\ log[n].name = name /\ log[n].date >= StartedAt
        \/ log[n].text = "stopped"}

\* The promise of the exec of session s has settled.
ExecSettled(s) == chain[s].pc \in {"execDone", "settled", "removed"}

\* C26: a pm2 exec resolves only if the poll loop last saw the process
\* stopping or stopped (or online with pid 0) with exit code 0 and, with the
\* log scan enabled, the log tail holds no kill event of the run; on any
\* other answer that is not launching or online with a pid (a nonzero exit
\* code, errored, no status, another status, no process listed) exec
\* rejects; on launching or online with a pid it does not settle and
\* stays in the poll loop.
C26_Pm2Outcome ==
  \A s \in CallIds :
    LET x == pm.exec[s]
        d == pm.exec[s].last
    IN
      /\ (ExecSettled(s) /\ chain[s].ok) => x.pc = "resolved"
      /\ x.pc = "resolved" =>
           /\ x.polled /\ SeenStopped(d) /\ SeenExitZero(d)
           /\ pm.scan => KillLines(pm.log, x.pid, sessions[s].key) = {}
      /\ (x.polled /\ ~SeenRunning(d) /\ ~(SeenStopped(d) /\ SeenExitZero(d))) =>
           /\ x.pc = "failed"
           /\ ExecSettled(s) /\ ~chain[s].ok
      /\ (x.polled /\ SeenRunning(d)) =>
           /\ ~x.classified
           /\ x.pc \in {"poll", "failed"}
           /\ x.pc = "poll" => chain[s].pc = "working"

\* An exec has resolved after the log scan, and its session with it.
C26_Witness ==
  \E s \in CallIds :
    /\ pm.exec[s].pc = "resolved"
    /\ pm.scan
    /\ sessions[s].defer.st = "resolved"

\* C29 (as claimed): once the poll loop has left on a terminal answer and
\* exec has settled, by success or by failure, the supervisor lists no
\* process that this exec started.
C29_Pm2CleansUp ==
  \A s \in CallIds :
    (pm.exec[s].classified /\ ExecSettled(s)) =>
      \A n \in 1..Len(pm.procs[procName(sessions[s].key)]) :
        pm.procs[procName(sessions[s].key)][n].by # s

\* C30: the supervisor never lists more than one process under a name, and
\* a child is started only when no process is listed under its name, the
\* one found there having been deleted first.
C30_OneProcessPerName ==
  [][/\ \A k \in Keys : Len(pm.procs[k]) <= 1 /\ Len(pm'.procs[k]) <= 1
     /\ \A s \in CallIds :
          (pm.exec[s].pc = "start" /\ pm'.exec[s].pc = "poll") =>
            /\ pm.procs[procName(sessions[s].key)] = <<>>
            /\ Len(pm'.procs[procName(sessions[s].key)]) = 1
  ]_vars

\* The post-mortem of the exec of session s has decided.
Scanned(s) ==
  /\ pm.scan /\ pm.exec[s].classified
  /\ SeenStopped(pm.exec[s].last) /\ SeenExitZero(pm.exec[s].last)
  /\ pm.exec[s].pc \in {"failed", "parallel", "resolved"}

\* Among the last five lines of the log: the kills of child pid, the
\* signalled exits of process name and the stops of pm2 that are events of
\* this run.
OwnKills(log, pid) ==
  {n \in KillLines(log, pid, "") : log[n].text = "pid"}
OwnSignals(log, name) ==
  {n \in KillLines(log, 0, name) : log[n].text = "exited"}
PmStops(log) ==
  {n \in KillLines(log, 0, "") : log[n].text = "stopped"}

\* C27: the post-mortem decides by priority over the events of the run among
\* the last five lines the log file holds: a kill of the child fails it as killed by pm2
\* whatever else there is; else a signalled exit fails it as killed by the
\* system, with the signal and exit code of the first such line; else a stop
\* of pm2 fails it as pm2 dead; else, also when no line parses, it succeeds.
C27_PostMortemPriority ==
  \A s \in CallIds :
    Scanned(s) =>
      LET x == pm.exec[s]
          K == OwnKills(pm.log, x.pid)
          S == OwnSignals(pm.log, sessions[s].key)
          P == PmStops(pm.log)
          first == CHOOSE n \in S : \A m \in S : n <= m
      IN
        /\ K # {} => (x.pc = "failed" /\ chain[s].out = "Process killed by PM2")
        /\ (K = {} /\ S # {}) =>
             /\ x.pc = "failed"
             /\ chain[s].out = "Proceess killed by system (" \o pm.log[first].signal
                                 \o " exit code " \o ToString(pm.log[first].exitCode) \o ")"
        /\ (K = {} /\ S = {} /\ P # {}) =>
             (x.pc = "failed" /\ chain[s].out = "PM2 God is dead")
        /\ (K = {} /\ S = {} /\ P = {}) => x.pc # "failed"

\* A line that is an event of some other run: a kill of another pid or from
\* before the start of the process, a signalled exit of another name or
\* from before the start.
Foreign(line, pid, name) ==
  \/ line.text = "pid" /\ (line.pid # pid \/ line.date < StartedAt)
  \/ /\ line.text = "exited" /\ line.signal \in {"SIGTERM", "SIGKILL"}
     /\ (line.name # name \/ line.date < StartedAt)

\* C28: a run whose last five log lines are all events of other runs is not
\* failed by the post-mortem.
C28_ForeignEventsIgnored ==
  \A s \in CallIds :
    (/\ Scanned(s)
     /\ \A n \in 1..Len(pm.log) :
          n > Len(pm.log) - 5 => Foreign(pm.log[n], pm.exec[s].pid, sessions[s].key))
      => pm.exec[s].pc # "failed"

\* A run has resolved over a log tail of a kill of another pid and an old
\* signalled exit of its own name.
C28_Witness ==
  \E s \in CallIds :
    /\ Scanned(s)
    /\ Len(pm.log) = 2
    /\ pm.log[1].text = "pid" /\ pm.log[1].pid # pm.exec[s].pid
    /\ pm.log[2].text = "exited" /\ pm.log[2].name = sessions[s].key
    /\ pm.log[2].date < StartedAt
    /\ sessions[s].defer.st = "resolved"
\* The runner and the cache the code is to pick for request i: what the
\* caller gave if it gave one, else what the hook answered.
WantedRunner(i) ==
  IF calls[i].sel.runner # "" THEN calls[i].sel.runner ELSE calls[i].sel.runnerCalc
WantedCache(i) ==
  IF calls[i].sel.cache # "" THEN calls[i].sel.cache ELSE calls[i].sel.cacheCalc
BadRunner(i) == WantedRunner(i) = "" \/ WantedRunner(i) \notin {"inline", "pm2"}
BadCache(i) == WantedCache(i) = "" \/ WantedCache(i) \notin {"filesystem", "memory"}
UnknownAgent(i) == calls[i].agent \notin DOMAIN Registry

\* C31: a run whose createSession has to fail (unknown agent, no runner or
\* cache selectable, a runner or cache name that is not registered) is
\* rejected and leaves nothing behind: no session object, nothing registered
\* in _running, no execution queued; with a bad runner and a bad cache it is
\* the runner the error names; every other run gets a session whose runner
\* and cache are the caller's override if given, else the hook's answer.
C31_CreateSessionRejects ==
  \A i \in 1..Len(calls) :
    calls[i].op = "run" =>
      IF UnknownAgent(i) \/ BadRunner(i) \/ BadCache(i)
        THEN /\ calls[i].ret.st = "rejected"
             /\ sessions[calls[i].sess] = NoSession
             /\ chain[calls[i].sess].pc = "none"
             /\ \A k \in Keys : running[k] # calls[i].sess
             /\ (~UnknownAgent(i) /\ BadRunner(i)) =>
                  calls[i].ret.val \in {"Unable to determine agent runner",
                                        "Invalid agent runner"}
        ELSE /\ calls[i].ret.st # "rejected" \/ calls[i].pc = "await"
             /\ sessions[calls[i].sess].runner = WantedRunner(i)
             /\ sessions[calls[i].sess].cache = WantedCache(i)

\* C31 witness: a run with a runner and a cache that are both not registered
\* was rejected, and a run whose override "inline" went against a hook
\* answering an unregistered runner has had its worker finish.
C31_Witness ==
  \E i, j \in 1..Len(calls) :
    /\ calls[i].sel.runner = "aws" /\ calls[i].sel.cache = "redis"
    /\ calls[i].agent = "primes"
    /\ calls[i].ret.st = "rejected"
    /\ calls[j].sel.runner = "inline" /\ calls[j].sel.runnerCalc = "aws"
    /\ chain[calls[j].sess].pc = "removed"
\* C32: while the worker of a run that has reported progress is at work, the
\* cache holds a progress record under '<cacheKey>-progress', and a
\* getSession that read the cache while that worker was still at work has
\* filled a progress into the session.
C32_ProgressRecorded ==
  /\ \A s \in CallIds :
       (chain[s].pc = "working" /\ sessions[s].context.progressCurrent > 0)
         => cache[ProgressKey(sessions[s].key)].val # Undefined
  /\ \A i \in 1..Len(calls) :
       ( /\ calls[i].op = "getSession" /\ calls[i].pc = "infer"
         /\ chain[calls[i].sess].pc = "working"
         /\ sessions[calls[i].sess].context.progressCurrent = MaxProgress )
         => calls[i].prog # Undefined
\* C33: with concurrent non-lazy gets of one key on an empty cache and no
\* invalidate, the worker is invoked for at most one session.
C33_GetsRunOnce ==
  \A k \in Keys :
    Cardinality({s \in CallIds :
                   /\ sessions[s].key = k
                   /\ chain[s].pc \in {"working", "writing", "execDone", "settled",
                                        "removed"}}) <= 1
\* C34: a run that was given the session of a finished run and has started
\* a new execution of it has its promise pending for as long as that
\* execution is queued or under way, and once the execution has finished
\* the promise carries the outcome of that execution.
C34_RerunAwaitsNewExecution ==
  \A i \in 1..Len(calls) :
    ( /\ calls[i].op = "run" /\ calls[i].sess < i
      /\ calls[i].pc = "await" /\ calls[i].awaiting = calls[i].sess )
      => LET s == calls[i].sess
             p == sessions[s].defer
         IN /\ chain[s].pc \in {"queued", "emitted", "cleared", "working", "writing",
                             "execDone"}
                 => p.st = "pending"
            /\ chain[s].pc \in {"settled", "removed"}
                 => /\ p.st = (IF chain[s].ok THEN "resolved" ELSE "rejected")
                    /\ p.val = chain[s].out
\* The sessions of the key of run i whose defer had settled when run i
\* was issued.
Finished(i) ==
  {s \in calls[i].after : sessions[s].key = sessions[calls[i].sess].key}

C36_UnknownWantNoEffect ==
  \A i \in 1..Len(calls) :
    ( /\ calls[i].op = "run"
      /\ calls[i].want \notin {"promise", "session"}
      /\ calls[i].ret.st = "rejected" )
      => /\ chain[calls[i].sess].pc = "none"
         /\ running[sessions[calls[i].sess].key] # calls[i].sess
\* The key that belongs to the requests of an agent with no settings.
OwnKey(a) == getKey(a, NoSettings)
\* The two requests whose keys were derived are the same request: same
\* agent, same settings once the '$' keys are dropped and the order ignored.
SameRequest ==
  /\ kq.id = kq.id2
  /\ SameUpToOrder(Obj(WithoutDollar(kq.given)), Obj(WithoutDollar(kq.variant)))
\* Every get served from the cache read the key of the agent it asked for;
\* every result in the cache was written by a session of the agent the key
\* belongs to; a progress record is gone only if a run of the agent it
\* belongs to has started;
\* every caller waits on a session of the agent it asked for; and two
\* different requests derive different keys, neither the progress key of
\* the other.
FrameKept ==
  /\ \A i \in 1..Len(calls) :
       (calls[i].op = "get" /\ calls[i].pc = "done" /\ calls[i].val # Undefined)
         => sessions[calls[i].sess].key = OwnKey(calls[i].agent)
  /\ \A k \in Keys :
       cache[k].by # 0 => OwnKey(sessions[cache[k].by].agent) = k
  /\ \A a \in {"primes", "timed1"} :
       cache[ProgressKey(OwnKey(a))].val = Undefined
         => \E s \in CallIds :
              /\ sessions[s].agent = a
              /\ chain[s].pc \notin {"none", "queued"}
  /\ \A i \in 1..Len(calls) :
       calls[i].pc = "await" => sessions[calls[i].awaiting].agent = calls[i].agent
  /\ (kq.id # "" /\ ~SameRequest) =>
       /\ kq.givenKey # kq.variantKey
       /\ kq.givenKey # ProgressKey(kq.variantKey)
       /\ kq.variantKey # ProgressKey(kq.givenKey)

\* C37: whatever the requests, a run touches only the cache entries of its
\* own (agent, settings), callers meet only sessions and values of the agent
\* they asked for, and different requests derive different keys, neither
\* the progress key of the other.
C37_RunTouchesOwnKeysOnly == FrameKept

\* C39: a pm2 execution that has seen its child stopped with exit code 0
\* eventually settles, disconnects from the supervisor and leaves the
\* coalescer, whatever the state of the log file.
C39_ExecSettlesWithoutLog ==
  \A s \in CallIds :
    (pm.exec[s].pc = "scan") ~>
      (/\ pm.exec[s].pc \in {"resolved", "failed"}
       /\ ~pm.conn
       /\ running[sessions[s].key] # s)

====
